---- MODULE Spec2Model ----
(***************************************************************************)
(* A model of the stateful parts of yt-tools (package ytdl_app):           *)
(*   - project/history.py      EditHistory (bounded undo/redo stacks)      *)
(*   - download/downloader.py  Downloader._download_with_retry             *)
(*   - download/archive.py     DownloadArchive (text file + cached set)    *)
(*   - download/queue.py       DownloadQueue (item map + FIFO + pause)     *)
(*   - project/manager.py      ProjectManager (save / load by extension)   *)
(* Each component has its own specification (SpecHistory, SpecDownloader,  *)
(* SpecArchive, SpecQueue); the variables of the other components keep     *)
(* their initial values in it.                                             *)
(***************************************************************************)
EXTENDS Integers, Sequences, FiniteSets, TLC

VARIABLES
    \* ---- EditHistory (project/history.py)
    maxHistory,     \* self._max_history
    undoStack,      \* self._undo_stack, oldest first
    redoStack,      \* self._redo_stack, most recently undone last
    hOp,            \* the last EditHistory call, what it returned, stack sizes before it
    hasPushed,      \* history: a push happened since construction / clear()
    pushRun,        \* history: number of consecutive pushes just made (capped)
    pushedRun,      \* history: the states of those pushes, the latest max_history + 1
    \* ---- Downloader (download/downloader.py)
    dRetries,       \* self.config.retries
    dCall,          \* the call in progress: method, url and the options built for it
    dPc,            \* where the call is: idle, attempt, sleep, returned, raised
    dAttempt,       \* the loop variable of _download_with_retry
    dLastError,     \* last_error
    dEvents,        \* history: the attempts and sleeps of the call, in order
    dResult,        \* what the call returned or raised
    \* ---- DownloadArchive (download/archive.py)
    aFile,          \* the archive file: whether it exists, and its text
    aEntries,       \* per instance: self._entries (loaded is FALSE while it is None)
    aOp,            \* the last DownloadArchive call, its instance and what it returned
    aLastOn,        \* history: per (extractor, video_id), the last add/remove on it
    \* ---- DownloadQueue (download/queue.py)
    qItems,         \* self._items: id -> DownloadItem
    qKeys,          \* the insertion order of self._items (a dict keeps it)
    qFifo,          \* self._queue: the ids waiting, head first
    qPaused,        \* self._paused
    qHasFile,       \* whether the queue was constructed with a queue_file
    qFile,          \* the JSON snapshot at self._queue_file
    qRet,           \* what the last DownloadQueue call returned
    qCancelRun,     \* history: the id cancelled while queued, with only get_next since
    qCtorError,     \* what DownloadQueue.__init__ raised (None when it returned)
    \* ---- DownloadQueue, one call taken step by step on its thread
    gPc,            \* get_next: where the call is
    gPopped,        \* get_next: the ids the call popped so far; item_id is the last
    gRet,           \* get_next: what it returned, and the item's status at that moment
    gCould,         \* history: what an atomic get_next could have returned during the call
    qLock,          \* self._lock: Free, or the thread holding it
    qOnProgress,    \* self._on_progress is set
    tPc,            \* per thread: where it is in a lock-taking call
    tCall,          \* per thread: the lock-taking call it is making
    tCallbacks,     \* history: per thread, the callback invocations of its current call
    \* ---- ProjectManager (project/manager.py)
    pmProject,      \* self.project (its name)
    pmDir,          \* whether the directory of the project files exists
    pmFiles,        \* the files of that directory, by file name
    pmOp,           \* the last ProjectManager call, its path and what it raised
    pmIo            \* history: what the last call did to the file system

historyVars == <<maxHistory, undoStack, redoStack, hOp, hasPushed, pushRun, pushedRun>>
downloaderVars == <<dRetries, dCall, dPc, dAttempt, dLastError, dEvents, dResult>>

archiveVars == <<aFile, aEntries, aOp, aLastOn>>

\* The variables of the step-by-step calls; the sequential operations leave
\* them alone.
threadVars == <<qCtorError, gPc, gPopped, gRet, qLock, qOnProgress, tPc, tCall, tCallbacks>>

queueVars ==
    <<qItems, qKeys, qFifo, qPaused, qHasFile, qFile, qRet, qCancelRun, threadVars, gCould>>

managerVars == <<pmProject, pmDir, pmFiles, pmOp, pmIo>>

vars == <<historyVars, downloaderVars, archiveVars, queueVars, managerVars>>

\* Python's None
None == "None"

Max(a, b) == IF a >= b THEN a ELSE b
Min(a, b) == IF a <= b THEN a ELSE b
Last(s) == s[Len(s)]
Front(s) == SubSeq(s, 1, Len(s) - 1)
\* list[-n:] for n >= 1
LastOf(s, n) == SubSeq(s, Max(1, Len(s) - n + 1), Len(s))

(***************************************************************************)
(* EditHistory                                                             *)
(***************************************************************************)

\* Largest max_history the constructor is called with in the model.
MaxHistory == 3

\* The snapshots and descriptions callers push.
States == {"P1", "P2", "P3"}
Descriptions == {"", "edit"}

\* HistoryEntry(state, description)
HistoryEntry(state, description) == [state |-> state, description |-> description]

\* push that forgets self._redo_stack.clear()
PushStacks_KeepRedo(undo, redo, entry, maxHist) ==
    LET appended == Append(undo, entry)
    IN  [undo |-> IF Len(appended) > maxHist THEN Tail(appended) ELSE appended,
         redo |-> redo]

\* push that evicts the entry just appended instead of index 0
PushStacks_EvictTop(undo, redo, entry, maxHist) ==
    LET appended == Append(undo, entry)
    IN  [undo |-> IF Len(appended) > maxHist THEN Front(appended) ELSE appended,
         redo |-> <<>>]

\* push that never evicts
PushStacks_NoEvict(undo, redo, entry, maxHist) ==
    [undo |-> Append(undo, entry), redo |-> <<>>]

\* EditHistory.push: append, clear the redo stack, evict index 0 over the cap.
PushStacks(undo, redo, entry, maxHist) ==
    LET appended == Append(undo, entry)
    IN  [undo |-> IF Len(appended) > maxHist THEN Tail(appended) ELSE appended,
         redo |-> <<>>]

\* undo whose floor is the empty stack (len < 1) instead of one entry
UndoResult_FloorZero(undo, redo) ==
    IF Len(undo) < 1
    THEN [undo |-> undo, redo |-> redo, ret |-> None]
    ELSE LET rest == Front(undo)
         IN  [undo |-> rest,
              redo |-> Append(redo, Last(undo)),
              ret  |-> IF Len(rest) > 0 THEN Last(rest).state ELSE None]

\* EditHistory.undo: the stacks afterwards and the value returned.
UndoResult(undo, redo) ==
    IF Len(undo) <= 1
    THEN [undo |-> undo, redo |-> redo, ret |-> None]
    ELSE LET rest == Front(undo)
         IN  [undo |-> rest,
              redo |-> Append(redo, Last(undo)),
              ret  |-> IF Len(rest) > 0 THEN Last(rest).state ELSE None]

\* redo that takes the entry undone first instead of the one undone last
RedoResult_Oldest(undo, redo) ==
    IF Len(redo) = 0
    THEN [undo |-> undo, redo |-> redo, ret |-> None]
    ELSE [undo |-> Append(undo, redo[1]),
          redo |-> Tail(redo),
          ret  |-> redo[1].state]

\* EditHistory.redo: the stacks afterwards and the value returned.
RedoResult(undo, redo) ==
    IF Len(redo) = 0
    THEN [undo |-> undo, redo |-> redo, ret |-> None]
    ELSE [undo |-> Append(undo, Last(redo)),
          redo |-> Front(redo),
          ret  |-> Last(redo).state]

\* EditHistory.can_undo / can_redo
can_undo(undo) == Len(undo) > 1
can_redo(redo) == Len(redo) > 0

\* get_undo_description that answers for a stack of one entry too
get_undo_description_FloorZero(undo) ==
    IF Len(undo) > 0 THEN Last(undo).description ELSE None

\* EditHistory.get_undo_description / get_redo_description
get_undo_description(undo) ==
    IF Len(undo) > 1 THEN Last(undo).description ELSE None
get_redo_description(redo) ==
    IF Len(redo) > 0 THEN Last(redo).description ELSE None

\* EditHistory.undo_count / redo_count
undo_count(undo) == Max(0, Len(undo) - 1)
redo_count(redo) == Len(redo)

\* EditHistory.__init__ default of max_history
DefaultMaxHistory == 50

\* EditHistory.__init__, max_history drawn from maxHistories
NewHistory(maxHistories) ==
    /\ maxHistory \in maxHistories
    /\ undoStack = <<>>
    /\ redoStack = <<>>
    /\ hOp = [name |-> "init", ret |-> None, undoBefore |-> 0, redoBefore |-> 0]
    /\ hasPushed = FALSE
    /\ pushRun = 0
    /\ pushedRun = <<>>

MaxHistories == 0..MaxHistory

Push ==
    \E s \in States, d \in Descriptions :
        LET after == PushStacks(undoStack, redoStack, HistoryEntry(s, d), maxHistory)
        IN  /\ undoStack' = after.undo
            /\ redoStack' = after.redo
            /\ hOp' = [name |-> "push", ret |-> None,
                      undoBefore |-> Len(undoStack), redoBefore |-> Len(redoStack)]
            /\ hasPushed' = TRUE
            /\ pushRun' = Min(pushRun + 1, maxHistory + 2)
            /\ pushedRun' = LastOf(Append(pushedRun, s), maxHistory + 1)
            /\ UNCHANGED <<maxHistory, downloaderVars, archiveVars, queueVars, managerVars>>

Undo ==
    LET after == UndoResult(undoStack, redoStack)
    IN  /\ undoStack' = after.undo
        /\ redoStack' = after.redo
        /\ hOp' = [name |-> "undo", ret |-> after.ret,
                      undoBefore |-> Len(undoStack), redoBefore |-> Len(redoStack)]
        /\ pushRun' = 0
        /\ pushedRun' = <<>>
    /\ pushedRun' = <<>>
        /\ UNCHANGED <<maxHistory, hasPushed, downloaderVars, archiveVars, queueVars, managerVars>>

Redo ==
    LET after == RedoResult(undoStack, redoStack)
    IN  /\ undoStack' = after.undo
        /\ redoStack' = after.redo
        /\ hOp' = [name |-> "redo", ret |-> after.ret,
                      undoBefore |-> Len(undoStack), redoBefore |-> Len(redoStack)]
        /\ pushRun' = 0
        /\ pushedRun' = <<>>
    /\ pushedRun' = <<>>
        /\ UNCHANGED <<maxHistory, hasPushed, downloaderVars, archiveVars, queueVars, managerVars>>

\* EditHistory.clear
Clear ==
    /\ undoStack' = <<>>
    /\ redoStack' = <<>>
    /\ hOp' = [name |-> "clear", ret |-> None,
                      undoBefore |-> Len(undoStack), redoBefore |-> Len(redoStack)]
    /\ hasPushed' = FALSE
    /\ pushRun' = 0
    /\ pushedRun' = <<>>
    /\ UNCHANGED <<maxHistory, downloaderVars, archiveVars, queueVars, managerVars>>

NextHistory == Push \/ Undo \/ Redo \/ Clear

\* The four read-only calls.  A call records its answer: the bool of can_undo /
\* can_redo in flag, the str | None of get_*_description in ret.
Asked(name, flag, ret) ==
    /\ hOp' = [name |-> name, flag |-> flag, ret |-> ret,
               undoBefore |-> Len(undoStack), redoBefore |-> Len(redoStack)]
    /\ UNCHANGED <<maxHistory, undoStack, redoStack, hasPushed, pushRun, pushedRun,
                   downloaderVars, archiveVars, queueVars, managerVars>>

CanUndo == Asked("can_undo", can_undo(undoStack), None)
CanRedo == Asked("can_redo", can_redo(redoStack), None)
GetUndoDescription == Asked("get_undo_description", FALSE, get_undo_description(undoStack))
GetRedoDescription == Asked("get_redo_description", FALSE, get_redo_description(redoStack))

NextHistoryAsked ==
    Push \/ Undo \/ Redo \/ Clear
        \/ CanUndo \/ CanRedo \/ GetUndoDescription \/ GetRedoDescription

(***************************************************************************)
(* Downloader                                                              *)
(***************************************************************************)

\* Largest config.retries in the model (the smallest is -1: an empty loop).
MaxCfgRetries == 2

\* DownloadConfig.retries default
DefaultRetries == 3

\* DownloadConfig.retry_sleep
RetrySleep == 5

Urls == {"u1", "u2"}

\* The messages of the yt_dlp.DownloadError an attempt can fail with.
LibErrors == {"e1", "e2"}

\* Downloader.download / download_playlist: the options handed to the loop.
BuildCall(method, url) ==
    [method |-> method, url |-> url, noplaylist |-> (method = "download")]

\* No call made yet, and no outcome yet
NoDownloadCall == [method |-> None, url |-> None, noplaylist |-> FALSE]
NoResult == [type |-> None]

\* the typed DownloadError of downloader.py
DownloadError(attempts, text, cause) ==
    [type |-> "DownloadError", attempts |-> attempts, text |-> text, cause |-> cause]

\* retry loop that sleeps and goes on after every failure
OnAttemptFailed_AlwaysSleeps(attempt, retries, e) == [pc |-> "sleep", result |-> NoResult]

\* retry loop that gives up one attempt early (attempt + 1 < retries)
OnAttemptFailed_OneShort(attempt, retries, e) ==
    IF attempt + 1 < retries
    THEN [pc |-> "sleep", result |-> NoResult]
    ELSE [pc |-> "raised", result |-> DownloadError(attempt + 1, e, e)]

\* The except branch of _download_with_retry: sleep and go on, or raise.
OnAttemptFailed(attempt, retries, e) ==
    IF attempt < retries
    THEN [pc |-> "sleep", result |-> NoResult]
    ELSE [pc |-> "raised", result |-> DownloadError(attempt + 1, e, e)]

\* Downloader.__init__, config.retries drawn from retriesChoices
NewDownloader(retriesChoices) ==
    /\ dRetries \in retriesChoices
    /\ dCall = NoDownloadCall
    /\ dPc = "idle"
    /\ dAttempt = 0
    /\ dLastError = None
    /\ dEvents = <<>>
    /\ dResult = NoResult

CfgRetries == -1..MaxCfgRetries

\* download(url) / download_playlist(url) is called and enters the for loop;
\* with an empty range the loop body never runs and the final raise is reached.
StartDownload ==
    /\ dPc \in {"idle", "returned", "raised"}
    /\ \E method \in {"download", "download_playlist"}, url \in Urls :
           dCall' = BuildCall(method, url)
    /\ dAttempt' = 0
    /\ dLastError' = None
    /\ dEvents' = <<>>
    /\ IF dRetries + 1 > 0
       THEN dPc' = "attempt" /\ dResult' = NoResult
       ELSE dPc' = "raised" /\ dResult' = DownloadError(None, None, None)
    /\ UNCHANGED <<dRetries, historyVars, archiveVars, queueVars, managerVars>>

\* ydl.extract_info returns: the loop returns its info.
AttemptSucceeds ==
    /\ dPc = "attempt"
    /\ dEvents' = Append(dEvents, [kind |-> "attempt", outcome |-> "ok"])
    /\ dPc' = "returned"
    /\ dResult' = [type |-> "info", url |-> dCall.url]
    /\ UNCHANGED <<dRetries, dCall, dAttempt, dLastError, historyVars, archiveVars, queueVars, managerVars>>

\* ydl.extract_info raises yt_dlp.DownloadError.
AttemptFails ==
    /\ dPc = "attempt"
    /\ \E e \in LibErrors :
           LET after == OnAttemptFailed(dAttempt, dRetries, e)
           IN  /\ dEvents' = Append(dEvents, [kind |-> "attempt", outcome |-> e])
               /\ dLastError' = e
               /\ dPc' = after.pc
               /\ dResult' = after.result
    /\ UNCHANGED <<dRetries, dCall, dAttempt, historyVars, archiveVars, queueVars, managerVars>>

\* ydl.extract_info raises something else: no except clause matches.
AttemptRaisesOther ==
    /\ dPc = "attempt"
    /\ dEvents' = Append(dEvents, [kind |-> "attempt", outcome |-> "other"])
    /\ dPc' = "raised"
    /\ dResult' = [type |-> "OtherError"]
    /\ UNCHANGED <<dRetries, dCall, dAttempt, dLastError, historyVars, archiveVars, queueVars, managerVars>>

\* time.sleep(self.config.retry_sleep); continue
SleepAndContinue ==
    /\ dPc = "sleep"
    /\ dEvents' = Append(dEvents, [kind |-> "sleep", secs |-> RetrySleep])
    /\ dAttempt' = dAttempt + 1
    /\ dPc' = "attempt"
    /\ UNCHANGED <<dRetries, dCall, dLastError, dResult, historyVars, archiveVars, queueVars, managerVars>>

NextDownloader ==
    AttemptSucceeds \/ AttemptFails \/ AttemptRaisesOther \/ SleepAndContinue
        \/ StartDownload

(***************************************************************************)
(* DownloadArchive                                                         *)
(* Text is a sequence of characters; the file is one such sequence.        *)
(***************************************************************************)

NL == "\n"

\* Code points of the characters the model writes (the order sorted() uses).
CharCode == [c \in {NL, " ", "#", "-", "0", "a", "b", "g", "y"} |->
               CASE c = NL  -> 10
                 [] c = " " -> 32
                 [] c = "#" -> 35
                 [] c = "-" -> 45
                 [] c = "0" -> 48
                 [] c = "a" -> 97
                 [] c = "b" -> 98
                 [] c = "g" -> 103
                 [] c = "y" -> 121]

IsSpace(c) == c \in {" ", NL}

\* The extractor keys, video ids and titles callers pass: keys and ids are
\* non-empty, carry no leading or trailing blank and no leading '#'; an id may
\* contain a blank; a title is absent, empty, or one line of text.
Extractors == {<<"y">>, <<"g">>}
VideoIds == {<<"a">>, <<"a", " ", "b">>}
NoTitle == [given |-> FALSE, text |-> <<>>]
Title(text) == [given |-> TRUE, text |-> text]
Titles == {NoTitle, Title(<<>>), Title(<<"y", " ", "a">>)}
Pairs == Extractors \X VideoIds

\* datetime.now().isoformat(), as written into the comment line
Timestamp == <<"0">>

ArchiveInstances == {"A", "B"}

\* f"{extractor} {video_id}"
EntryLine(extractor, video_id) == extractor \o <<" ">> \o video_id

\* str.splitlines()
RECURSIVE SplitLines(_)
SplitLines(text) ==
    IF text = <<>> THEN <<>>
    ELSE IF \E i \in 1..Len(text) : text[i] = NL
         THEN LET i == CHOOSE k \in 1..Len(text) :
                           text[k] = NL /\ \A j \in 1..(k - 1) : text[j] # NL
              IN  <<SubSeq(text, 1, i - 1)>> \o SplitLines(SubSeq(text, i + 1, Len(text)))
         ELSE <<text>>

\* str.strip()
RECURSIVE LStrip(_)
LStrip(t) == IF t # <<>> /\ IsSpace(t[1]) THEN LStrip(Tail(t)) ELSE t
RECURSIVE RStrip(_)
RStrip(t) == IF t # <<>> /\ IsSpace(Last(t)) THEN RStrip(Front(t)) ELSE t
Strip(t) == RStrip(LStrip(t))

\* str.startswith("#")
StartsWithHash(t) == t # <<>> /\ t[1] = "#"

\* The loop of _load_entries over an existing or missing file.
LoadEntries(file) ==
    IF ~file.exists THEN {}
    ELSE LET lines == SplitLines(file.text)
         IN  {Strip(lines[i]) : i \in {k \in 1..Len(lines) :
                  Strip(lines[k]) # <<>> /\ ~StartsWithHash(Strip(lines[k]))}}

\* _load_entries: the cached set, read from the file on first use.
Loaded(inst) ==
    IF ~aEntries[inst].loaded THEN LoadEntries(aFile) ELSE aEntries[inst].set

\* Python's order on str
RECURSIVE LexLess(_, _)
LexLess(s, t) ==
    IF t = <<>> THEN FALSE
    ELSE IF s = <<>> THEN TRUE
    ELSE IF s[1] # t[1] THEN CharCode[s[1]] < CharCode[t[1]]
    ELSE LexLess(Tail(s), Tail(t))

\* sorted(self._entries)
RECURSIVE Sorted(_)
Sorted(S) ==
    IF S = {} THEN <<>>
    ELSE LET m == CHOOSE x \in S : \A y \in S \ {x} : LexLess(x, y)
         IN  <<m>> \o Sorted(S \ {m})

RECURSIVE WriteLines(_)
WriteLines(lines) ==
    IF lines = <<>> THEN <<>> ELSE lines[1] \o <<NL>> \o WriteLines(Tail(lines))

\* add that writes the entry without its line break
AppendEntry_NoNewline(file, title, line) ==
    [exists |-> TRUE,
     text |-> (IF file.exists THEN file.text ELSE <<>>)
        \o (IF title.given /\ title.text # <<>>
            THEN <<"#", " ">> \o title.text \o <<" ", "-", " ">> \o Timestamp \o <<NL>>
            ELSE <<>>)
        \o line]

\* The "a" mode write of add: an optional comment line, then the entry line.
AppendEntry(file, title, line) ==
    [exists |-> TRUE,
     text |-> (IF file.exists THEN file.text ELSE <<>>)
        \o (IF title.given /\ title.text # <<>>
            THEN <<"#", " ">> \o title.text \o <<" ", "-", " ">> \o Timestamp \o <<NL>>
            ELSE <<>>)
        \o line \o <<NL>>]

\* _save: the "w" mode rewrite, one sorted entry per line.
SaveEntries(entries) == [exists |-> TRUE, text |-> WriteLines(Sorted(entries))]

NoFile == [exists |-> FALSE, text |-> <<>>]
NotLoaded == [loaded |-> FALSE, set |-> {}]
Cached(entries) == [loaded |-> TRUE, set |-> entries]

\* The pair slot of a call that takes no (extractor, id) pair.  The ret slot
\* holds the bool contains and remove return; it is FALSE after the others.
NoPair == <<>>

\* DownloadArchive.__init__ of every instance, on the given file
NewArchive(file) ==
    /\ aFile = file
    /\ aEntries = [inst \in ArchiveInstances |-> NotLoaded]
    /\ aOp = [name |-> "init", inst |-> None, pair |-> NoPair, ret |-> FALSE]
    /\ aLastOn = [p \in Pairs |-> "none"]

\* DownloadArchive(path): construct the instance anew on the same file.
ArchiveOpen(inst) ==
    /\ aEntries[inst].loaded
    /\ aEntries' = [aEntries EXCEPT ![inst] = NotLoaded]
    /\ aOp' = [name |-> "open", inst |-> inst, pair |-> NoPair, ret |-> FALSE]
    /\ UNCHANGED <<aFile, aLastOn, historyVars, downloaderVars, queueVars, managerVars>>

ArchiveContains(inst) ==
    \E p \in Pairs :
        LET entries == Loaded(inst)
        IN  /\ aEntries' = [aEntries EXCEPT ![inst] = Cached(entries)]
            /\ aOp' = [name |-> "contains", inst |-> inst, pair |-> p,
                       ret |-> (EntryLine(p[1], p[2]) \in entries)]
            /\ UNCHANGED <<aFile, aLastOn, historyVars, downloaderVars, queueVars, managerVars>>

\* add that appends without looking the entry up first
ArchiveAdd_AlwaysAppends(inst) ==
    \E p \in Pairs, title \in Titles :
        LET entries == Loaded(inst)
            line == EntryLine(p[1], p[2])
        IN  /\ aEntries' = [aEntries EXCEPT ![inst] = Cached(entries \cup {line})]
            /\ aFile' = AppendEntry(aFile, title, line)
            /\ aOp' = [name |-> "add", inst |-> inst, pair |-> p, ret |-> FALSE]
            /\ aLastOn' = [aLastOn EXCEPT ![p] = "add"]
            /\ UNCHANGED <<historyVars, downloaderVars, queueVars, managerVars>>

ArchiveAdd(inst) ==
    \E p \in Pairs, title \in Titles :
        LET entries == Loaded(inst)
            line == EntryLine(p[1], p[2])
        IN  /\ IF line \notin entries
               THEN /\ aEntries' = [aEntries EXCEPT ![inst] = Cached(entries \cup {line})]
                    /\ aFile' = AppendEntry(aFile, title, line)
               ELSE /\ aEntries' = [aEntries EXCEPT ![inst] = Cached(entries)]
                    /\ UNCHANGED aFile
            /\ aOp' = [name |-> "add", inst |-> inst, pair |-> p, ret |-> FALSE]
            /\ aLastOn' = [aLastOn EXCEPT ![p] = "add"]
            /\ UNCHANGED <<historyVars, downloaderVars, queueVars, managerVars>>

\* remove that reads the file again instead of using the cached set
ArchiveRemove_FromDisk(inst) ==
    \E p \in Pairs :
        LET entries == LoadEntries(aFile)
            line == EntryLine(p[1], p[2])
        IN  /\ IF line \in entries
               THEN /\ aEntries' = [aEntries EXCEPT ![inst] = Cached(entries \ {line})]
                    /\ aFile' = SaveEntries(entries \ {line})
               ELSE /\ aEntries' = [aEntries EXCEPT ![inst] = Cached(entries)]
                    /\ UNCHANGED aFile
            /\ aOp' = [name |-> "remove", inst |-> inst, pair |-> p, ret |-> (line \in entries)]
            /\ aLastOn' = [aLastOn EXCEPT ![p] = "remove"]
            /\ UNCHANGED <<historyVars, downloaderVars, queueVars, managerVars>>

ArchiveRemove(inst) ==
    \E p \in Pairs :
        LET entries == Loaded(inst)
            line == EntryLine(p[1], p[2])
        IN  /\ IF line \in entries
               THEN /\ aEntries' = [aEntries EXCEPT ![inst] = Cached(entries \ {line})]
                    /\ aFile' = SaveEntries(entries \ {line})
               ELSE /\ aEntries' = [aEntries EXCEPT ![inst] = Cached(entries)]
                    /\ UNCHANGED aFile
            /\ aOp' = [name |-> "remove", inst |-> inst, pair |-> p, ret |-> (line \in entries)]
            /\ aLastOn' = [aLastOn EXCEPT ![p] = "remove"]
            /\ UNCHANGED <<historyVars, downloaderVars, queueVars, managerVars>>

\* DownloadArchive.clear: empty the cache, unlink the file if it exists.
ArchiveClear(inst) ==
    /\ aEntries' = [aEntries EXCEPT ![inst] = Cached({})]
    /\ aFile' = NoFile
    /\ aOp' = [name |-> "clear", inst |-> inst, pair |-> NoPair, ret |-> FALSE]
    /\ aLastOn' = [p \in Pairs |-> "none"]
    /\ UNCHANGED <<historyVars, downloaderVars, queueVars, managerVars>>

\* One DownloadArchive instance at work on the file.
NextArchive ==
    ArchiveContains("A") \/ ArchiveAdd("A") \/ ArchiveRemove("A")
        \/ ArchiveClear("A") \/ ArchiveOpen("A")

\* Two DownloadArchive instances on the same file: A looks entries up and
\* removes them, B looks entries up and adds them.  Nothing orders their calls.
NextArchiveTwo ==
    ArchiveContains("A") \/ ArchiveRemove("A") \/ ArchiveContains("B") \/ ArchiveAdd("B")

(***************************************************************************)
(* DownloadQueue                                                           *)
(* A DownloadItem is modelled by its url, id, title, status, progress,     *)
(* error and retries; the timestamps and output_path, which no queue       *)
(* operation reads, are left out.                                          *)
(***************************************************************************)

\* Bounds of the model: items held at once, clock readings, ids waiting in
\* the FIFO, retries of one item.
MaxItems == 2
MaxClock == 1
MaxFifo == 2
MaxItemRetries == 1

\* DownloadStatus members and their values
PENDING == "PENDING"
DOWNLOADING == "DOWNLOADING"
PAUSED == "PAUSED"
COMPLETED == "COMPLETED"
FAILED == "FAILED"
CANCELLED == "CANCELLED"
Statuses == {PENDING, DOWNLOADING, PAUSED, COMPLETED, FAILED, CANCELLED}
StatusValue ==
    [st \in Statuses |->
        CASE st = PENDING -> "pending"
          [] st = DOWNLOADING -> "downloading"
          [] st = PAUSED -> "paused"
          [] st = COMPLETED -> "completed"
          [] st = FAILED -> "failed"
          [] st = CANCELLED -> "cancelled"]

\* DownloadItem.__post_init__: the id is made of the url's hash and the clock.
ItemId(url, now) == <<url, now>>
QUrls == {"u1"}
ItemIds == {ItemId(u, t) : u \in QUrls, t \in 0..MaxClock}

\* What callers pass as item_id: any id, the empty string, or nothing (None).
EmptyId == <<>>
NoId == <<"None">>
ArgIds == ItemIds \cup {EmptyId}

\* Python truth of an item_id argument
Truthy(id) == id \notin {EmptyId, NoId}

QTitles == {""}
ProgressValues == {100}
ErrorTexts == {None, "", "boom"}

\* DownloadItem(url=url, title=title)
NewItem(url, title, now) ==
    [url |-> url, id |-> ItemId(url, now), title |-> title, status |-> PENDING,
     progress |-> 0, error |-> None, retries |-> 0]

\* DownloadItem.to_dict
to_dict(item) ==
    [url |-> item.url, id |-> item.id, title |-> item.title,
     status |-> StatusValue[item.status], progress |-> item.progress,
     error |-> item.error, retries |-> item.retries]

\* DownloadItem.mark_started / mark_completed / mark_failed
mark_started(item) == [item EXCEPT !.status = DOWNLOADING]
mark_completed(item) == [item EXCEPT !.status = COMPLETED, !.progress = 100]
mark_failed(item, error) == [item EXCEPT !.status = FAILED, !.error = error]

\* self._items[id] = item: a new key goes last, an old key keeps its place
PutItem(items, id, item) ==
    [k \in DOMAIN items \cup {id} |-> IF k = id THEN item ELSE items[k]]
PutKey(keys, id) ==
    IF \E i \in 1..Len(keys) : keys[i] = id THEN keys ELSE Append(keys, id)

RECURSIVE Without(_, _)
Without(keys, gone) ==
    IF keys = <<>> THEN <<>>
    ELSE IF keys[1] \in gone THEN Without(Tail(keys), gone)
    ELSE <<keys[1]>> \o Without(Tail(keys), gone)

\* _save: nothing without a queue_file, else
\* {"items": [item.to_dict() for item in self._items.values()]}
Snapshot(items, keys) ==
    IF ~qHasFile THEN qFile
    ELSE [exists |-> TRUE, json |-> TRUE,
          items |-> [i \in 1..Len(keys) |-> to_dict(items[keys[i]])]]

\* A key that an item entry of the file does not have
Missing == "<missing>"

\* DownloadStatus(value): the member with that value, ValueError when there is none
StatusOf(value) ==
    IF \E st \in Statuses : StatusValue[st] = value
    THEN CHOOSE st \in Statuses : StatusValue[st] = value
    ELSE "ValueError"

\* from_dict that takes every item as a fresh one
from_dict_ResetRetries(data, now) ==
    IF data.url = Missing THEN [raised |-> "KeyError"]
    ELSE IF StatusOf(IF data.status = Missing THEN "pending" ELSE data.status) = "ValueError"
    THEN [raised |-> "ValueError"]
    ELSE [raised |-> None,
          item |-> [url |-> data.url,
                    id |-> IF data.id = EmptyId THEN ItemId(data.url, now) ELSE data.id,
                    title |-> data.title,
                    status |-> StatusOf(IF data.status = Missing THEN "pending"
                                        ELSE data.status),
                    progress |-> data.progress,
                    error |-> data.error,
                    retries |-> 0]]

\* DownloadItem.from_dict: data["url"] raises KeyError when the key is absent,
\* DownloadStatus(...) raises ValueError on an unknown value, an absent or
\* empty id is generated by __post_init__.
from_dict(data, now) ==
    IF data.url = Missing THEN [raised |-> "KeyError"]
    ELSE IF StatusOf(IF data.status = Missing THEN "pending" ELSE data.status) = "ValueError"
    THEN [raised |-> "ValueError"]
    ELSE [raised |-> None,
          item |-> [url |-> data.url,
                    id |-> IF data.id = EmptyId THEN ItemId(data.url, now) ELSE data.id,
                    title |-> data.title,
                    status |-> StatusOf(IF data.status = Missing THEN "pending"
                                        ELSE data.status),
                    progress |-> data.progress,
                    error |-> data.error,
                    retries |-> data.retries]]

\* The loop of _load over the item entries still to read: each item is put
\* into the map and, when PENDING, into the FIFO, until an entry raises.
RECURSIVE LoadItems(_, _, _)
LoadItems(entries, now, acc) ==
    IF entries = <<>> THEN acc
    ELSE LET r == from_dict(entries[1], now)
         IN  IF r.raised # None THEN [acc EXCEPT !.raised = r.raised]
             ELSE LoadItems(Tail(entries), now,
                      [items |-> PutItem(acc.items, r.item.id, r.item),
                       keys |-> PutKey(acc.keys, r.item.id),
                       fifo |-> IF r.item.status = PENDING
                                THEN Append(acc.fifo, r.item.id) ELSE acc.fifo,
                       raised |-> None])

\* _load: json.loads raises JSONDecodeError on text that is not JSON; that and
\* KeyError are swallowed, anything else leaves __init__.
LoadSnapshot(file, now) ==
    LET empty == [items |-> [k \in {} |-> None], keys |-> <<>>, fifo |-> <<>>,
                  raised |-> None]
        r == IF file.json THEN LoadItems(file.items, now, empty) ELSE empty
    IN  [r EXCEPT !.raised = IF @ = "ValueError" THEN @ ELSE None]

\* get_next that pops before it looks at the pause flag
GetNextResult_PopsWhilePaused(fifo, items, paused) ==
    IF fifo = <<>> THEN [ret |-> NoId, fifo |-> fifo]
    ELSE IF paused THEN [ret |-> NoId, fifo |-> Tail(fifo)]
    ELSE IF fifo[1] \in DOMAIN items /\ items[fifo[1]].status = PENDING
         THEN [ret |-> fifo[1], fifo |-> Tail(fifo)]
         ELSE [ret |-> NoId, fifo |-> Tail(fifo)]

\* get_next that hands out whatever the popped id names
GetNextResult_NoStatusCheck(fifo, items, paused) ==
    IF paused THEN [ret |-> NoId, fifo |-> fifo]
    ELSE IF fifo = <<>> THEN [ret |-> NoId, fifo |-> fifo]
    ELSE [ret |-> fifo[1], fifo |-> Tail(fifo)]

\* DownloadQueue.get_next: pop ids until one names a PENDING item; None when
\* the queue is paused or the FIFO runs empty (queue.Empty is swallowed).
RECURSIVE GetNextResult(_, _, _)
GetNextResult(fifo, items, paused) ==
    IF paused THEN [ret |-> NoId, fifo |-> fifo]
    ELSE IF fifo = <<>> THEN [ret |-> NoId, fifo |-> fifo]
    ELSE IF fifo[1] \in DOMAIN items /\ items[fifo[1]].status = PENDING
         THEN [ret |-> fifo[1], fifo |-> Tail(fifo)]
         ELSE GetNextResult(Tail(fifo), items, paused)

\* get_next on a call stack with room for `frames` more activations of it.
\* The call that no longer fits raises RecursionError inside the caller's try,
\* whose `except Exception` returns None; every activation before it has
\* popped its id.
RECURSIVE GetNextWithin(_, _, _, _)
GetNextWithin(fifo, items, paused, frames) ==
    IF paused THEN [ret |-> NoId, fifo |-> fifo]
    ELSE IF fifo = <<>> THEN [ret |-> NoId, fifo |-> fifo]
    ELSE IF fifo[1] \in DOMAIN items /\ items[fifo[1]].status = PENDING
         THEN [ret |-> fifo[1], fifo |-> Tail(fifo)]
         ELSE IF frames <= 1
              THEN [ret |-> NoId, fifo |-> Tail(fifo)]
              ELSE GetNextWithin(Tail(fifo), items, paused, frames - 1)

\* cancel that reports success without touching the status
CancelItem_KeepStatus(items, id) == items

\* DownloadQueue.cancel on an id of the map
CancelItem(items, id) == [items EXCEPT ![id].status = CANCELLED]

\* retry that accepts a cancelled item as well
RetryEligible_OrCancelled(items, id) ==
    id \in DOMAIN items /\ items[id].status \in {FAILED, CANCELLED}

\* DownloadQueue.retry: the condition for going ahead
RetryEligible(items, id) == id \in DOMAIN items /\ items[id].status = FAILED

\* DownloadQueue.retry on an eligible item
RetryItem(items, id) ==
    [items EXCEPT ![id].status = PENDING, ![id].error = None,
                  ![id].retries = items[id].retries + 1]

\* clear_completed that forgets the cancelled items
ToRemove_CompletedOnly(items) == {id \in DOMAIN items : items[id].status = COMPLETED}

\* DownloadQueue.clear_completed: to_remove
ToRemove(items) ==
    {id \in DOMAIN items : items[id].status \in {COMPLETED, CANCELLED}}

EmptyMap == [k \in {} |-> None]

\* threading.Lock(): nobody holds it
Free == "free"
Threads == {"worker", "ui"}

\* A thread that is in no lock-taking call
NoCall == [op |-> "none", id |-> NoId]

\* get_next has handed out nothing
NoHandOut == [id |-> NoId, status |-> None]

\* DownloadQueue.__init__ without a queue_file, or with one that does not exist
NewQueue(withFile) ==
    /\ qHasFile \in withFile
    /\ qItems = EmptyMap
    /\ qKeys = <<>>
    /\ qFifo = <<>>
    /\ qPaused = FALSE
    /\ qFile = [exists |-> FALSE, json |-> TRUE, items |-> <<>>]
    /\ qRet = [call |-> "none", id |-> NoId, flag |-> FALSE, count |-> 0, ids |-> <<>>]
    /\ qCancelRun = {}
    /\ qCtorError = None
    /\ qLock = Free
    /\ qOnProgress = FALSE
    /\ gPc = "idle"
    /\ gPopped = <<>>
    /\ gRet = NoHandOut
    /\ gCould = {}
    /\ tPc = [t \in Threads |-> "idle"]
    /\ tCall = [t \in Threads |-> NoCall]
    /\ tCallbacks = [t \in Threads |-> 0]

\* DownloadQueue.__init__ on a queue_file that exists: _load reads it
NewQueueOn(files) ==
    /\ qHasFile = TRUE
    /\ qFile \in files
    /\ \E now \in 0..MaxClock :
          LET r == LoadSnapshot(qFile, now)
          IN  /\ qCtorError = r.raised
              /\ qItems = IF r.raised = None THEN r.items ELSE EmptyMap
              /\ qKeys = IF r.raised = None THEN r.keys ELSE <<>>
              /\ qFifo = IF r.raised = None THEN r.fifo ELSE <<>>
    /\ qPaused = FALSE
    /\ qRet = [call |-> "__init__", id |-> NoId, flag |-> FALSE, count |-> 0, ids |-> <<>>]
    /\ qCancelRun = {}
    /\ qLock = Free
    /\ qOnProgress = FALSE
    /\ gPc = "idle"
    /\ gPopped = <<>>
    /\ gRet = NoHandOut
    /\ gCould = {}
    /\ tPc = [t \in Threads |-> "idle"]
    /\ tCall = [t \in Threads |-> NoCall]
    /\ tCallbacks = [t \in Threads |-> 0]

QOthers == <<historyVars, downloaderVars, archiveVars, threadVars, managerVars>>

\* What a call hands back: the call's name and its value, or NoReturn.  The
\* value is kept in the slot of its Python type: an item id (add, get_next),
\* a bool (cancel, retry), an int (clear_completed), a list of ids (add_batch).
Returned(call, value) ==
    [call |-> call,
     id |-> IF call \in {"add", "get_next"} THEN value ELSE NoId,
     flag |-> IF call \in {"cancel", "retry"} THEN value ELSE FALSE,
     count |-> IF call = "clear_completed" THEN value ELSE 0,
     ids |-> IF call = "add_batch" THEN value ELSE <<>>]
NoReturn == Returned("none", None)

QAdd(url, title, now) ==
    LET item == NewItem(url, title, now)
    IN  /\ Cardinality(DOMAIN qItems \cup {item.id}) <= MaxItems
        /\ Len(qFifo) < MaxFifo
        /\ qItems' = PutItem(qItems, item.id, item)
        /\ qKeys' = PutKey(qKeys, item.id)
        /\ qFifo' = Append(qFifo, item.id)
        /\ qFile' = Snapshot(qItems', qKeys')
        /\ qRet' = Returned("add", item.id)
        /\ qCancelRun' = {}
        /\ UNCHANGED <<qPaused, qHasFile, QOthers>>

\* add_batch over two urls; the clock is read once per item
QAddBatch(u1, now1, u2, now2) ==
    LET i1 == NewItem(u1, "", now1)
        i2 == NewItem(u2, "", now2)
        items1 == PutItem(qItems, i1.id, i1)
    IN  /\ Cardinality(DOMAIN qItems \cup {i1.id, i2.id}) <= MaxItems
        /\ Len(qFifo) + 2 <= MaxFifo
        /\ qItems' = PutItem(items1, i2.id, i2)
        /\ qKeys' = PutKey(PutKey(qKeys, i1.id), i2.id)
        /\ qFifo' = qFifo \o <<i1.id, i2.id>>
        /\ qFile' = Snapshot(qItems', qKeys')
        /\ qRet' = Returned("add_batch", <<i1.id, i2.id>>)
        /\ qCancelRun' = {}
        /\ UNCHANGED <<qPaused, qHasFile, QOthers>>

QGetNext ==
    LET r == GetNextResult(qFifo, qItems, qPaused)
    IN  /\ qFifo' = r.fifo
        /\ qRet' = Returned("get_next", r.ret)
        /\ UNCHANGED <<qItems, qKeys, qPaused, qHasFile, qFile, qCancelRun, QOthers>>

QUpdateProgress(id, progress) ==
    /\ qItems' = IF id \in DOMAIN qItems
                 THEN [qItems EXCEPT ![id].progress = progress] ELSE qItems
    /\ qRet' = NoReturn
    /\ qCancelRun' = {}
    /\ UNCHANGED <<qKeys, qFifo, qPaused, qHasFile, qFile, QOthers>>

\* update_status that hands the error argument to mark_failed as it is
ErrorOr_AsGiven(error) == error

\* error or "Unknown error": None and the empty str are falsy
ErrorOr(error) == IF error \in {None, ""} THEN "Unknown error" ELSE error

\* update_status on an id of the map: the routing to the item's methods
RouteStatus(items, id, status, error) ==
    [items EXCEPT ![id] =
        CASE status = DOWNLOADING -> mark_started(@)
          [] status = COMPLETED -> mark_completed(@)
          [] status = FAILED -> mark_failed(@, ErrorOr(error))
          [] OTHER -> [@ EXCEPT !.status = status]]

QUpdateStatus(id, status, error) ==
    /\ IF id \in DOMAIN qItems
       THEN /\ qItems' = RouteStatus(qItems, id, status, error)
            /\ qFile' = Snapshot(qItems', qKeys)
       ELSE UNCHANGED <<qItems, qFile>>
    /\ qRet' = NoReturn
    /\ qCancelRun' = {}
    /\ UNCHANGED <<qKeys, qFifo, qPaused, qHasFile, QOthers>>

QPause(id) ==
    /\ IF Truthy(id) /\ id \in DOMAIN qItems
       THEN qItems' = [qItems EXCEPT ![id].status = PAUSED] /\ UNCHANGED qPaused
       ELSE qPaused' = TRUE /\ UNCHANGED qItems
    /\ qFile' = Snapshot(qItems', qKeys)
    /\ qRet' = NoReturn
    /\ qCancelRun' = {}
    /\ UNCHANGED <<qKeys, qFifo, qHasFile, QOthers>>

QResume(id) ==
    /\ IF Truthy(id) /\ id \in DOMAIN qItems
       THEN IF qItems[id].status = PAUSED
            THEN /\ Len(qFifo) < MaxFifo
                 /\ qItems' = [qItems EXCEPT ![id].status = PENDING]
                 /\ qFifo' = Append(qFifo, id)
                 /\ UNCHANGED qPaused
            ELSE UNCHANGED <<qItems, qFifo, qPaused>>
       ELSE qPaused' = FALSE /\ UNCHANGED <<qItems, qFifo>>
    /\ qFile' = Snapshot(qItems', qKeys)
    /\ qRet' = NoReturn
    /\ qCancelRun' = {}
    /\ UNCHANGED <<qKeys, qHasFile, QOthers>>

QCancel(id) ==
    /\ IF id \in DOMAIN qItems
       THEN /\ qItems' = CancelItem(qItems, id)
            /\ qFile' = Snapshot(qItems', qKeys)
       ELSE UNCHANGED <<qItems, qFile>>
    /\ qRet' = Returned("cancel", id \in DOMAIN qItems)
    /\ qCancelRun' = IF id \in DOMAIN qItems /\ \E i \in 1..Len(qFifo) : qFifo[i] = id
                     THEN {id} ELSE {}
    /\ UNCHANGED <<qKeys, qFifo, qPaused, qHasFile, QOthers>>

QRetry(id) ==
    /\ IF RetryEligible(qItems, id)
       THEN /\ qItems[id].retries < MaxItemRetries
            /\ Len(qFifo) < MaxFifo
            /\ qItems' = RetryItem(qItems, id)
            /\ qFifo' = Append(qFifo, id)
            /\ qFile' = Snapshot(qItems', qKeys)
       ELSE UNCHANGED <<qItems, qFifo, qFile>>
    /\ qRet' = Returned("retry", RetryEligible(qItems, id))
    /\ qCancelRun' = {}
    /\ UNCHANGED <<qKeys, qPaused, qHasFile, QOthers>>

QClearCompleted ==
    LET gone == ToRemove(qItems)
    IN  /\ qItems' = [k \in DOMAIN qItems \ gone |-> qItems[k]]
        /\ qKeys' = Without(qKeys, gone)
        /\ qFile' = Snapshot(qItems', qKeys')
        /\ qRet' = Returned("clear_completed", Cardinality(gone))
        /\ qCancelRun' = {}
        /\ UNCHANGED <<qFifo, qPaused, qHasFile, QOthers>>

\* The clock readings of the adds are unconstrained: time.time() is the wall
\* clock, and two adds can fall into the same millisecond.
Clocks == 0..MaxClock

NextQueue ==
    \/ \E url \in QUrls, title \in QTitles, now \in Clocks :
           QAdd(url, title, now) /\ UNCHANGED gCould
    \/ \E u1 \in QUrls, u2 \in QUrls, now1 \in Clocks, now2 \in Clocks :
           QAddBatch(u1, now1, u2, now2) /\ UNCHANGED gCould
    \/ QGetNext /\ UNCHANGED gCould
    \/ \E id \in ItemIds, p \in ProgressValues : QUpdateProgress(id, p) /\ UNCHANGED gCould
    \/ \E id \in ItemIds, status \in Statuses, error \in ErrorTexts :
           /\ error # None => status = FAILED
           /\ QUpdateStatus(id, status, error)
           /\ UNCHANGED gCould
    \/ \E id \in ArgIds \cup {NoId} : QPause(id) /\ UNCHANGED gCould
    \/ \E id \in ArgIds \cup {NoId} : QResume(id) /\ UNCHANGED gCould
    \/ \E id \in ItemIds : QCancel(id) /\ UNCHANGED gCould
    \/ \E id \in ItemIds : QRetry(id) /\ UNCHANGED gCould
    \/ QClearCompleted /\ UNCHANGED gCould

\* Largest number of get_next activations the caller's stack leaves room for.
MaxFrames == 2

\* get_next called where the interpreter's recursion limit leaves room for
\* `frames` activations
QGetNextWithin(frames) ==
    LET r == GetNextWithin(qFifo, qItems, qPaused, frames)
    IN  /\ qFifo' = r.fifo
        /\ qRet' = Returned("get_next", r.ret)
        /\ UNCHANGED <<qItems, qKeys, qPaused, qHasFile, qFile, qCancelRun, QOthers>>

\* The queue's calls, with get_next called at any depth of the caller's stack
NextQueueDeep ==
    \/ \E url \in QUrls, title \in QTitles, now \in Clocks :
           QAdd(url, title, now) /\ UNCHANGED gCould
    \/ \E frames \in 1..MaxFrames : QGetNextWithin(frames) /\ UNCHANGED gCould
    \/ \E id \in ItemIds, status \in Statuses : QUpdateStatus(id, status, None) /\ UNCHANGED gCould
    \/ \E id \in ArgIds \cup {NoId} : QPause(id) /\ UNCHANGED gCould
    \/ \E id \in ArgIds \cup {NoId} : QResume(id) /\ UNCHANGED gCould
    \/ \E id \in ItemIds : QCancel(id) /\ UNCHANGED gCould
    \/ \E id \in ItemIds : QRetry(id) /\ UNCHANGED gCould

\* add at a moment the clock has moved on since the last add of the url, so
\* that the new id is not in the map
QAddFresh(url, title, now) ==
    /\ ItemId(url, now) \notin DOMAIN qItems
    /\ QAdd(url, title, now)

\* The queue's calls on items with distinct ids
NextQueueFresh ==
    \/ \E url \in QUrls, title \in QTitles, now \in Clocks :
           QAddFresh(url, title, now) /\ UNCHANGED gCould
    \/ QGetNext /\ UNCHANGED gCould
    \/ \E id \in ItemIds, status \in Statuses :
           QUpdateStatus(id, status, None) /\ UNCHANGED gCould
    \/ \E id \in ArgIds \cup {NoId} : QPause(id) /\ UNCHANGED gCould
    \/ \E id \in ArgIds \cup {NoId} : QResume(id) /\ UNCHANGED gCould
    \/ \E id \in ItemIds : QCancel(id) /\ UNCHANGED gCould
    \/ \E id \in ItemIds : QRetry(id) /\ UNCHANGED gCould
    \/ QClearCompleted /\ UNCHANGED gCould

\* The calls a client makes around a cancellation: items are added, fail
\* (so that retry applies), are cancelled, paused, resumed, retried, handed out.
NextQueueCancel ==
    \/ \E url \in QUrls, title \in QTitles, now \in Clocks :
           QAdd(url, title, now) /\ UNCHANGED gCould
    \/ \E id \in ItemIds : QUpdateStatus(id, FAILED, None) /\ UNCHANGED gCould
    \/ \E id \in ItemIds : QCancel(id) /\ UNCHANGED gCould
    \/ \E id \in ArgIds \cup {NoId} : QPause(id) /\ UNCHANGED gCould
    \/ \E id \in ArgIds \cup {NoId} : QResume(id) /\ UNCHANGED gCould
    \/ \E id \in ItemIds : QRetry(id) /\ UNCHANGED gCould
    \/ QGetNext /\ UNCHANGED gCould

(***************************************************************************)
(* DownloadQueue with a queue_file: every _save rewrites the snapshot, and *)
(* a new DownloadQueue on the same path loads it.                          *)
(***************************************************************************)

\* DownloadQueue(queue_file) again on the same path: a new object, whose
\* __init__ loads the snapshot when the file exists
QReopen(now) ==
    LET r == IF qFile.exists THEN LoadSnapshot(qFile, now)
             ELSE [items |-> EmptyMap, keys |-> <<>>, fifo |-> <<>>, raised |-> None]
    IN  /\ qHasFile
        /\ qCtorError = None
        /\ qCtorError' = r.raised
        /\ qItems' = IF r.raised = None THEN r.items ELSE EmptyMap
        /\ qKeys' = IF r.raised = None THEN r.keys ELSE <<>>
        /\ qFifo' = IF r.raised = None THEN r.fifo ELSE <<>>
        /\ qPaused' = FALSE
        /\ qRet' = Returned("__init__", None)
        /\ qCancelRun' = {}
        /\ UNCHANGED <<qHasFile, qFile, gPc, gPopped, gRet, gCould, qLock, qOnProgress,
                       tPc, tCall, tCallbacks>>
        /\ UNCHANGED <<historyVars, downloaderVars, archiveVars, managerVars>>

\* The calls the queue documents as mutating
MutatingCall ==
    \/ \E url \in QUrls, title \in QTitles, now \in Clocks :
           QAdd(url, title, now) /\ UNCHANGED gCould
    \/ \E u1 \in QUrls, u2 \in QUrls, now1 \in Clocks, now2 \in Clocks :
           QAddBatch(u1, now1, u2, now2) /\ UNCHANGED gCould
    \/ \E id \in ItemIds, p \in ProgressValues : QUpdateProgress(id, p) /\ UNCHANGED gCould
    \/ \E id \in ItemIds : QUpdateStatus(id, FAILED, None) /\ UNCHANGED gCould
    \/ \E id \in ItemIds \cup {NoId} : QPause(id) /\ UNCHANGED gCould
    \/ \E id \in ItemIds \cup {NoId} : QResume(id) /\ UNCHANGED gCould
    \/ \E id \in ItemIds : QCancel(id) /\ UNCHANGED gCould
    \/ \E id \in ItemIds : QRetry(id) /\ UNCHANGED gCould
    \/ QClearCompleted /\ UNCHANGED gCould

NextQueueFile ==
    \/ MutatingCall
    \/ QGetNext /\ UNCHANGED gCould
    \/ \E now \in Clocks : QReopen(now)

\* Snapshot files found on disk at construction: text that is not JSON, and
\* item lists whose entries are well-formed, lack the url key, or carry a
\* status that is no DownloadStatus value.
MaxEntries == 2
SavedEntry(now, status) == to_dict([NewItem("u1", "", now) EXCEPT !.status = status])
FileEntries ==
    {SavedEntry(0, PENDING), SavedEntry(1, PAUSED),
     [SavedEntry(0, PENDING) EXCEPT !.url = Missing],
     [SavedEntry(1, PENDING) EXCEPT !.status = "bogus"]}
SnapshotFiles ==
    {[exists |-> TRUE, json |-> FALSE, items |-> <<>>]}
        \cup {[exists |-> TRUE, json |-> TRUE, items |-> es] :
                 es \in UNION {[1..n -> FileEntries] : n \in 0..MaxEntries}}

NextQueueLoad ==
    \/ \E now \in Clocks : QReopen(now)
    \/ qCtorError = None /\ QGetNext /\ UNCHANGED gCould
    \/ \E url \in QUrls, title \in QTitles, now \in Clocks :
           qCtorError = None /\ QAdd(url, title, now) /\ UNCHANGED gCould
    \/ \E id \in ItemIds : qCtorError = None /\ QCancel(id) /\ UNCHANGED gCould
    \/ qCtorError = None /\ QClearCompleted /\ UNCHANGED gCould

(***************************************************************************)
(* get_next on one thread, statement by statement, while another thread    *)
(* makes lock-taking calls.  get_next takes no lock (queue.py 49-60), so   *)
(* the other thread's calls, each atomic under self._lock, fall between    *)
(* its statements.                                                         *)
(***************************************************************************)

\* The get_next call is between its first and its last statement
InGetNext == gPc \in {"pop", "check", "return"}

\* What get_next would return if it ran, as one step, on the queue as it is
\* without the pops this call already made
AtomicGetNext(fifo, items, paused) == GetNextResult(gPopped \o fifo, items, paused).ret

\* line 51, on entry and on each recursion: if self._paused: return None
GetNextEnter ==
    /\ gPc \in {"idle", "done", "recurse"}
    /\ gPc' = IF qPaused THEN "done" ELSE "pop"
    /\ gPopped' = IF gPc = "recurse" THEN gPopped ELSE <<>>
    /\ gCould' = IF gPc = "recurse" THEN gCould
                 ELSE {GetNextResult(qFifo, qItems, qPaused).ret}
    /\ gRet' = NoHandOut
    /\ UNCHANGED <<qItems, qKeys, qFifo, qPaused, qHasFile, qFile, qRet, qCancelRun>>
    /\ UNCHANGED <<qCtorError, qLock, qOnProgress, tPc, tCall, tCallbacks>>
    /\ UNCHANGED <<historyVars, downloaderVars, archiveVars, managerVars>>

\* line 54: item_id = self._queue.get_nowait(); queue.Empty ends the call
\* with None (line 59)
GetNextPop ==
    /\ gPc = "pop"
    /\ IF qFifo = <<>>
       THEN gPc' = "done" /\ UNCHANGED <<gPopped, qFifo>>
       ELSE /\ Len(gPopped) < MaxFifo
            /\ gPc' = "check"
            /\ gPopped' = Append(gPopped, Head(qFifo))
            /\ qFifo' = Tail(qFifo)
    /\ UNCHANGED <<qItems, qKeys, qPaused, qHasFile, qFile, qRet, qCancelRun>>
    /\ UNCHANGED <<qCtorError, gRet, gCould, qLock, qOnProgress, tPc, tCall, tCallbacks>>
    /\ UNCHANGED <<historyVars, downloaderVars, archiveVars, managerVars>>

\* lines 55-56: item = self._items.get(item_id); item and item.status == PENDING
GetNextCheck ==
    /\ gPc = "check"
    /\ gPc' = IF Last(gPopped) \in DOMAIN qItems /\ qItems[Last(gPopped)].status = PENDING
              THEN "return" ELSE "recurse"
    /\ UNCHANGED <<qItems, qKeys, qFifo, qPaused, qHasFile, qFile, qRet, qCancelRun>>
    /\ UNCHANGED <<qCtorError, gPopped, gRet, gCould, qLock, qOnProgress, tPc, tCall,
                   tCallbacks>>
    /\ UNCHANGED <<historyVars, downloaderVars, archiveVars, managerVars>>

\* line 57: return item.  The caller gets the item object as it is now; an
\* item that clear_completed took out of the map was COMPLETED or CANCELLED.
GetNextReturn ==
    /\ gPc = "return"
    /\ gPc' = "done"
    /\ gRet' = [id |-> Last(gPopped),
                status |-> IF Last(gPopped) \in DOMAIN qItems
                           THEN qItems[Last(gPopped)].status ELSE "removed"]
    /\ UNCHANGED <<qItems, qKeys, qFifo, qPaused, qHasFile, qFile, qRet, qCancelRun>>
    /\ UNCHANGED <<qCtorError, gPopped, gCould, qLock, qOnProgress, tPc, tCall, tCallbacks>>
    /\ UNCHANGED <<historyVars, downloaderVars, archiveVars, managerVars>>

\* A call of the other thread, made while get_next is under way, is a
\* moment at which get_next could have run as a whole.
DuringGetNext ==
    gCould' = IF gPc \in {"pop", "check", "return", "recurse"}
              THEN gCould \cup {AtomicGetNext(qFifo', qItems', qPaused')}
              ELSE gCould

NextQueueThreads ==
    \/ GetNextEnter
    \/ GetNextPop
    \/ GetNextCheck
    \/ GetNextReturn
    \/ \E url \in QUrls, title \in QTitles, now \in Clocks :
           QAdd(url, title, now) /\ DuringGetNext
    \/ \E id \in ItemIds : QUpdateStatus(id, PENDING, None) /\ DuringGetNext
    \/ \E id \in ItemIds \cup {NoId} : QPause(id) /\ DuringGetNext
    \/ QResume(NoId) /\ DuringGetNext
    \/ \E id \in ItemIds : QCancel(id) /\ DuringGetNext
    \/ QClearCompleted /\ DuringGetNext

(***************************************************************************)
(* The lock-taking calls, thread by thread.  A thread that makes a call    *)
(* waits at `with self._lock` until the lock is free, then runs the body   *)
(* and releases the lock.  The body of update_progress calls the progress  *)
(* callback while it still holds the lock; the callback runs on the same   *)
(* thread and may itself make a lock-taking call.                          *)
(***************************************************************************)

\* The calls made here: the operations on the first item's id, update_progress
\* on an id that names no item, and the calls without an id.
KnownId == ItemId("u1", 0)
UnknownId == ItemId("u1", 1)
LockCalls ==
    {[op |-> o, id |-> KnownId] :
         o \in {"add", "update_progress", "update_status", "pause", "resume", "cancel",
                "retry"}}
        \cup {[op |-> "update_progress", id |-> UnknownId]}
        \cup {[op |-> o, id |-> NoId] : o \in {"pause", "resume", "clear_completed"}}

\* What the body of a call makes of the item map, its key order, the FIFO and
\* the pause flag (update_status is called with FAILED, update_progress with 100)
Effect(c) ==
    LET id == c.id
        q == [items |-> qItems, keys |-> qKeys, fifo |-> qFifo, paused |-> qPaused]
        known == id \in DOMAIN qItems
    IN  CASE c.op = "add" ->
                 [q EXCEPT !.items = PutItem(qItems, id, NewItem(id[1], "", id[2])),
                           !.keys = PutKey(qKeys, id),
                           !.fifo = Append(qFifo, id)]
          [] c.op = "update_progress" ->
                 IF known THEN [q EXCEPT !.items[id].progress = 100] ELSE q
          [] c.op = "update_status" ->
                 IF known THEN [q EXCEPT !.items[id] = mark_failed(@, "Unknown error")]
                 ELSE q
          [] c.op = "pause" ->
                 IF Truthy(id) /\ known THEN [q EXCEPT !.items[id].status = PAUSED]
                 ELSE [q EXCEPT !.paused = TRUE]
          [] c.op = "resume" ->
                 IF Truthy(id) /\ known
                 THEN IF qItems[id].status = PAUSED
                      THEN [q EXCEPT !.items[id].status = PENDING,
                                     !.fifo = Append(qFifo, id)]
                      ELSE q
                 ELSE [q EXCEPT !.paused = FALSE]
          [] c.op = "cancel" ->
                 IF known THEN [q EXCEPT !.items = CancelItem(qItems, id)] ELSE q
          [] c.op = "retry" ->
                 IF RetryEligible(qItems, id)
                 THEN [q EXCEPT !.items = RetryItem(qItems, id), !.fifo = Append(qFifo, id)]
                 ELSE q
          [] c.op = "clear_completed" ->
                 [q EXCEPT !.items = [k \in DOMAIN qItems \ ToRemove(qItems) |-> qItems[k]],
                           !.keys = Without(qKeys, ToRemove(qItems))]

\* The bounds of the model, on the queue a call leaves
WithinBounds(q) ==
    /\ Cardinality(DOMAIN q.items) <= MaxItems
    /\ Len(q.fifo) <= MaxFifo
    /\ \A k \in DOMAIN q.items : q.items[k].retries <= MaxItemRetries

\* a lock that its holder can take again (threading.RLock)
LockAvailable_Reentrant(t) == qLock \in {Free, t}

\* threading.Lock: acquire goes through only while nobody holds the lock, the
\* caller included
LockAvailable(t) == qLock = Free

\* set_progress_callback(fn); takes no lock
TSetCallback ==
    /\ ~qOnProgress
    /\ qOnProgress' = TRUE
    /\ UNCHANGED <<qItems, qKeys, qFifo, qPaused, qHasFile, qFile, qRet, qCancelRun>>
    /\ UNCHANGED <<qCtorError, gPc, gPopped, gRet, gCould, qLock, tPc, tCall, tCallbacks>>
    /\ UNCHANGED <<historyVars, downloaderVars, archiveVars, managerVars>>

\* thread t makes a lock-taking call and reaches `with self._lock`
TCall(t, c) ==
    /\ tPc[t] = "idle"
    /\ tPc' = [tPc EXCEPT ![t] = "waiting"]
    /\ tCall' = [tCall EXCEPT ![t] = c]
    /\ tCallbacks' = [tCallbacks EXCEPT ![t] = 0]
    /\ UNCHANGED <<qItems, qKeys, qFifo, qPaused, qHasFile, qFile, qRet, qCancelRun>>
    /\ UNCHANGED <<qCtorError, gPc, gPopped, gRet, gCould, qLock, qOnProgress>>
    /\ UNCHANGED <<historyVars, downloaderVars, archiveVars, managerVars>>

\* thread t gets the lock and runs the body of its call.  update_progress on
\* an item of the map, with a callback set, calls the callback and keeps the
\* lock until it returns (lines 64-68); every other body ends and the `with`
\* releases the lock.  A call made from inside the callback goes back to it.
TAcquire(t) ==
    LET c == tCall[t]
        q == Effect(c)
        calls == c.op = "update_progress" /\ c.id \in DOMAIN qItems /\ qOnProgress
    IN  /\ tPc[t] \in {"waiting", "nested"}
        /\ LockAvailable(t)
        /\ WithinBounds(q)
        /\ qItems' = q.items
        /\ qKeys' = q.keys
        /\ qFifo' = q.fifo
        /\ qPaused' = q.paused
        /\ qLock' = IF calls THEN t ELSE Free
        /\ tPc' = [tPc EXCEPT ![t] = IF calls \/ tPc[t] = "nested" THEN "callback"
                                     ELSE "idle"]
        /\ tCallbacks' = [tCallbacks EXCEPT ![t] = IF calls THEN @ + 1 ELSE @]
        /\ UNCHANGED <<qHasFile, qFile, qRet, qCancelRun, tCall>>
        /\ UNCHANGED <<qCtorError, gPc, gPopped, gRet, gCould, qOnProgress>>
        /\ UNCHANGED <<historyVars, downloaderVars, archiveVars, managerVars>>

\* the callback, running on thread t, makes a lock-taking call of its own
TCallbackCalls(t, c) ==
    /\ tPc[t] = "callback"
    /\ tPc' = [tPc EXCEPT ![t] = "nested"]
    /\ tCall' = [tCall EXCEPT ![t] = c]
    /\ UNCHANGED <<qItems, qKeys, qFifo, qPaused, qHasFile, qFile, qRet, qCancelRun>>
    /\ UNCHANGED <<qCtorError, gPc, gPopped, gRet, gCould, qLock, qOnProgress, tCallbacks>>
    /\ UNCHANGED <<historyVars, downloaderVars, archiveVars, managerVars>>

\* the callback returns; update_progress leaves the `with` and returns
TCallbackReturns(t) ==
    /\ tPc[t] = "callback"
    /\ tPc' = [tPc EXCEPT ![t] = "idle"]
    /\ qLock' = Free
    /\ UNCHANGED <<qItems, qKeys, qFifo, qPaused, qHasFile, qFile, qRet, qCancelRun>>
    /\ UNCHANGED <<qCtorError, gPc, gPopped, gRet, gCould, qOnProgress, tCall, tCallbacks>>
    /\ UNCHANGED <<historyVars, downloaderVars, archiveVars, managerVars>>

NextQueueLock ==
    \/ TSetCallback
    \/ \E t \in Threads, c \in LockCalls : TCall(t, c)
    \/ \E t \in Threads : TAcquire(t)
    \/ \E t \in Threads, c \in LockCalls : TCallbackCalls(t, c)
    \/ \E t \in Threads : TCallbackReturns(t)

(***************************************************************************)
(* ProjectManager                                                          *)
(* A project is modelled by its name; a file by whether it exists, the     *)
(* format it was written in and the project it holds.  All paths are in    *)
(* one directory; a path is its file name, a sequence of characters.       *)
(***************************************************************************)

\* The file names save and load are called with.
PathNames ==
    {<<"p", ".", "j", "s", "o", "n">>, <<"p", ".", "J", "S", "O", "N">>,
     <<"p", ".", "y", "a", "m", "l">>, <<"p", ".", "Y", "m", "l">>,
     <<"p", ".", "t", "x", "t">>, <<"p">>, <<".", "j", "s", "o", "n">>,
     <<"p", ".", "y", "m", "l", ".">>}
NoPath == <<>>

ProjectNames == {"Untitled", "P"}

\* str.lower on the characters of the file names
Lower(t) ==
    [i \in 1..Len(t) |->
        CASE t[i] = "J" -> "j" [] t[i] = "S" -> "s" [] t[i] = "O" -> "o"
          [] t[i] = "N" -> "n" [] t[i] = "Y" -> "y" [] t[i] = "M" -> "m"
          [] t[i] = "L" -> "l" [] OTHER -> t[i]]

\* PurePath.suffix: from the last dot on, unless that dot begins or ends the name
Suffix(name) ==
    LET dots == {i \in 1..Len(name) : name[i] = "."}
    IN  IF dots = {} THEN <<>>
        ELSE LET i == CHOOSE d \in dots : \A e \in dots : e <= d
             IN  IF 1 < i /\ i < Len(name) THEN SubSeq(name, i, Len(name)) ELSE <<>>

DotJson == <<".", "j", "s", "o", "n">>
DotYaml == <<".", "y", "a", "m", "l">>
DotYml == <<".", "y", "m", "l">>
DotTxt == <<".", "t", "x", "t">>

\* a format set that takes .txt as well
SUPPORTED_FORMATS_AndTxt == {DotJson, DotYaml, DotYml, DotTxt}

\* ProjectManager.SUPPORTED_FORMATS
SUPPORTED_FORMATS == {DotJson, DotYaml, DotYml}

NoProjectFile == [exists |-> FALSE, format |-> None, project |-> None]
ProjectFile(format, project) == [exists |-> TRUE, format |-> format, project |-> project]

\* The directory before the first call: missing, or holding a p.txt that
\* some other program wrote as JSON.
NoProjectFiles == [dir |-> FALSE, files |-> [n \in PathNames |-> NoProjectFile]]
WithTxtFile ==
    [dir |-> TRUE,
     files |-> [n \in PathNames |->
                   IF Suffix(n) = DotTxt THEN ProjectFile("json", "P") ELSE NoProjectFile]]

\* ProjectManager.__init__ with no project given
NewManager(dirs) ==
    /\ pmProject = "Untitled"
    /\ \E d \in dirs : pmDir = d.dir /\ pmFiles = d.files
    /\ pmOp = [name |-> "init", path |-> NoPath, raised |-> None]
    /\ pmIo = {}

PmOthers == <<historyVars, downloaderVars, archiveVars, queueVars>>

\* ProjectManager.save
PmSave(path) ==
    LET suffix == Lower(Suffix(path))
    IN  /\ IF suffix \notin SUPPORTED_FORMATS
           THEN /\ pmOp' = [name |-> "save", path |-> path, raised |-> "ValueError"]
                /\ pmIo' = {}
                /\ UNCHANGED <<pmDir, pmFiles>>
           ELSE /\ pmDir' = TRUE
                /\ pmFiles' = [pmFiles EXCEPT ![path] =
                       ProjectFile(IF suffix = DotJson THEN "json" ELSE "yaml", pmProject)]
                /\ pmOp' = [name |-> "save", path |-> path, raised |-> None]
                /\ pmIo' = {"mkdir", "write"}
        /\ UNCHANGED <<pmProject, PmOthers>>

\* ProjectManager.load.  json.loads rejects what yaml.dump wrote; yaml.safe_load
\* reads what json.dumps wrote.
PmLoad(path) ==
    LET suffix == Lower(Suffix(path))
        file == pmFiles[path]
    IN  /\ IF suffix \notin SUPPORTED_FORMATS
           THEN /\ pmOp' = [name |-> "load", path |-> path, raised |-> "ValueError"]
                /\ pmIo' = {}
                /\ UNCHANGED pmProject
           ELSE IF ~file.exists
           THEN /\ pmOp' = [name |-> "load", path |-> path, raised |-> "FileNotFoundError"]
                /\ pmIo' = {"open"}
                /\ UNCHANGED pmProject
           ELSE IF suffix = DotJson /\ file.format # "json"
           THEN /\ pmOp' = [name |-> "load", path |-> path, raised |-> "JSONDecodeError"]
                /\ pmIo' = {"open", "read"}
                /\ UNCHANGED pmProject
           ELSE /\ pmOp' = [name |-> "load", path |-> path, raised |-> None]
                /\ pmIo' = {"open", "read"}
                /\ pmProject' = file.project
        /\ UNCHANGED <<pmDir, pmFiles, PmOthers>>

\* ProjectManager.new_project
PmNewProject(name) ==
    /\ pmProject' = name
    /\ pmOp' = [name |-> "new_project", path |-> NoPath, raised |-> None]
    /\ pmIo' = {}
    /\ UNCHANGED <<pmDir, pmFiles, PmOthers>>

NextManager ==
    \/ \E path \in PathNames : PmSave(path)
    \/ \E path \in PathNames : PmLoad(path)
    \/ \E name \in ProjectNames : PmNewProject(name)

(***************************************************************************)
(* Specifications                                                          *)
(***************************************************************************)

InitHistory ==
    NewHistory(MaxHistories) /\ NewDownloader({DefaultRetries}) /\ NewArchive(NoFile)
        /\ NewQueue({FALSE}) /\ NewManager({NoProjectFiles})

SpecHistory == InitHistory /\ [][NextHistory]_vars

InitManager ==
    NewManager({NoProjectFiles, WithTxtFile}) /\ NewHistory({DefaultMaxHistory})
        /\ NewDownloader({DefaultRetries}) /\ NewArchive(NoFile) /\ NewQueue({FALSE})

SpecManager == InitManager /\ [][NextManager]_vars

SpecHistoryAsked == InitHistory /\ [][NextHistoryAsked]_vars

InitDownloader ==
    NewDownloader(CfgRetries) /\ NewHistory({DefaultMaxHistory}) /\ NewArchive(NoFile)
        /\ NewQueue({FALSE}) /\ NewManager({NoProjectFiles})

SpecDownloader == InitDownloader /\ [][NextDownloader]_vars

InitArchive ==
    NewArchive(NoFile) /\ NewHistory({DefaultMaxHistory}) /\ NewDownloader({DefaultRetries})
        /\ NewQueue({FALSE}) /\ NewManager({NoProjectFiles})

SpecArchive == InitArchive /\ [][NextArchive]_vars

SpecArchiveTwo == InitArchive /\ [][NextArchiveTwo]_vars

InitQueue ==
    NewQueue({FALSE}) /\ NewHistory({DefaultMaxHistory}) /\ NewDownloader({DefaultRetries})
        /\ NewArchive(NoFile) /\ NewManager({NoProjectFiles})

SpecQueue == InitQueue /\ [][NextQueue]_vars

SpecQueueDeep == InitQueue /\ [][NextQueueDeep]_vars

SpecQueueCancel == InitQueue /\ [][NextQueueCancel]_vars

SpecQueueFresh == InitQueue /\ [][NextQueueFresh]_vars

SpecQueueThreads == InitQueue /\ [][NextQueueThreads]_vars

SpecQueueLock == InitQueue /\ [][NextQueueLock]_vars

InitQueueFile ==
    NewQueue({TRUE}) /\ NewHistory({DefaultMaxHistory}) /\ NewDownloader({DefaultRetries})
        /\ NewArchive(NoFile) /\ NewManager({NoProjectFiles})

SpecQueueFile == InitQueueFile /\ [][NextQueueFile]_vars

InitQueueLoad ==
    NewQueueOn(SnapshotFiles) /\ NewHistory({DefaultMaxHistory})
        /\ NewDownloader({DefaultRetries}) /\ NewArchive(NoFile)
        /\ NewManager({NoProjectFiles})

SpecQueueLoad == InitQueueLoad /\ [][NextQueueLoad]_vars

(***************************************************************************)
(* Properties                                                              *)
(***************************************************************************)

\* The items a run of get_next() calls on an unpaused queue returns, in order,
\* until the first None.
RECURSIVE DrainReturns(_, _)
DrainReturns(fifo, items) ==
    LET r == GetNextResult(fifo, items, FALSE)
    IN  IF r.ret = NoId THEN <<>> ELSE <<r.ret>> \o DrainReturns(r.fifo, items)

InSeq(x, seq) == \E i \in 1..Len(seq) : seq[i] = x

(* C1: in every state reached by add, add_batch, update_status,            *)
(* update_progress, pause, resume, cancel, retry and clear_completed       *)
(* calls, what get_next() returns is either None or an item of the queue   *)
(* whose status is PENDING at that moment; a paused queue returns None.    *)
C1_GetNextReturnsPending ==
    qRet.call = "get_next" =>
        /\ \/ qRet.id = NoId
           \/ /\ qRet.id \in DOMAIN qItems
              /\ qItems[qRet.id].status = PENDING
        /\ qPaused => qRet.id = NoId

\* get_next() has handed out an item that was retried before
C1_Witness ==
    /\ qRet.call = "get_next"
    /\ qRet.id \in DOMAIN qItems
    /\ qItems[qRet.id].status = PENDING
    /\ qItems[qRet.id].retries = 1
    /\ Cardinality(DOMAIN qItems) = 2

(* C2: after cancel(id) on an id still in the FIFO, no get_next() call of  *)
(* a following run of get_next() calls returns that item: the stale id is  *)
(* skipped and the next PENDING item, or None, is returned instead.        *)
C2_CancelledNeverReturned ==
    \A id \in qCancelRun :
        /\ ~InSeq(id, DrainReturns(qFifo, qItems))
        /\ qRet.call = "get_next" =>
               /\ qRet.id # id
               /\ qRet.id = NoId \/ qItems[qRet.id].status = PENDING
               /\ (qRet.id = NoId /\ ~qPaused) => ~InSeq(id, qFifo)

\* the cancelled id was at the head of the FIFO; get_next() dropped it and
\* returned the item queued behind it
C2_Witness ==
    /\ qRet.call = "get_next"
    /\ qRet.id \in DOMAIN qItems
    /\ qCancelRun # {}
    /\ qRet.id \notin qCancelRun
    /\ qFifo = <<>>

(* C3: retry(id) returns True iff the item exists and its status is        *)
(* FAILED.  On success the status becomes PENDING, retries grows by        *)
(* exactly 1, error becomes None and the id is appended to the FIFO, so    *)
(* that get_next() calls return it again; on False the items, the FIFO and *)
(* the pause flag are unchanged.                                           *)
C3_RetryStep(id) ==
    /\ qRet'.call = "retry"
    /\ qRet'.flag <=> (id \in DOMAIN qItems /\ qItems[id].status = FAILED)
    /\ qRet'.flag =>
           /\ qItems'[id].status = PENDING
           /\ qItems'[id].retries = qItems[id].retries + 1
           /\ qItems'[id].error = None
           /\ qFifo' = Append(qFifo, id)
           /\ InSeq(id, DrainReturns(qFifo', qItems'))
    /\ ~qRet'.flag => UNCHANGED <<qItems, qFifo, qPaused>>

C3_RetryContract ==
    [][\A id \in ItemIds : qRet'.call = "retry" /\ QRetry(id) => C3_RetryStep(id)]_vars

\* retry() has returned True for an item that failed with an error message
C3_Witness ==
    /\ qRet.call = "retry"
    /\ qRet.flag
    /\ \E id \in DOMAIN qItems :
           /\ qItems[id].status = PENDING
           /\ qItems[id].retries = 1
           /\ qItems[id].error = None
           /\ qFifo # <<>> /\ Last(qFifo) = id

(* C4: clear_completed() removes exactly the items whose status is         *)
(* COMPLETED or CANCELLED, returns how many it removed and leaves every    *)
(* other item in place with all its fields, and the pause flag, unchanged. *)
C4_ClearStep ==
    /\ qRet'.call = "clear_completed"
    /\ DOMAIN qItems' =
           {id \in DOMAIN qItems : qItems[id].status \notin {COMPLETED, CANCELLED}}
    /\ qRet'.count = Cardinality(DOMAIN qItems \ DOMAIN qItems')
    /\ \A id \in DOMAIN qItems' : qItems'[id] = qItems[id]
    /\ qPaused' = qPaused

C4_ClearCompletedContract ==
    [][qRet'.call = "clear_completed" /\ QClearCompleted => C4_ClearStep]_vars

\* clear_completed() has removed one item and kept a failed one, queue paused
C4_Witness ==
    /\ qRet.call = "clear_completed"
    /\ qRet.count = 1
    /\ qPaused
    /\ \E id \in DOMAIN qItems :
           qItems[id].status = FAILED /\ qItems[id].error = "boom"

StatesOf(stack) == [i \in 1..Len(stack) |-> stack[i].state]

(* C7: undo() with at least two entries on the undo stack moves the top    *)
(* entry onto the redo stack and returns the state of the new top, with    *)
(* zero or one entry it returns None and changes nothing; redo() with a    *)
(* non-empty redo stack moves its top back onto the undo stack and returns *)
(* that entry's state, with an empty one it returns None and changes       *)
(* nothing.  Instance: on the stack P1,P2,P3 undo gives P2, on P1,P2 it    *)
(* gives P1, on P1 it gives None.                                          *)
C7_UndoStep ==
    hOp'.name = "undo" =>
        IF Len(undoStack) >= 2
        THEN /\ undoStack' = Front(undoStack)
             /\ redoStack' = Append(redoStack, Last(undoStack))
             /\ hOp'.ret = undoStack[Len(undoStack) - 1].state
        ELSE /\ hOp'.ret = None
             /\ UNCHANGED <<undoStack, redoStack>>

C7_RedoStep ==
    hOp'.name = "redo" =>
        IF Len(redoStack) >= 1
        THEN /\ redoStack' = Front(redoStack)
             /\ undoStack' = Append(undoStack, Last(redoStack))
             /\ hOp'.ret = Last(redoStack).state
        ELSE /\ hOp'.ret = None
             /\ UNCHANGED <<undoStack, redoStack>>

C7_Example ==
    hOp'.name = "undo" =>
        /\ StatesOf(undoStack) = <<"P1", "P2", "P3">> => hOp'.ret = "P2"
        /\ StatesOf(undoStack) = <<"P1", "P2">> => hOp'.ret = "P1"
        /\ StatesOf(undoStack) = <<"P1">> => hOp'.ret = None

C7_UndoRedoContract == [][C7_UndoStep /\ C7_RedoStep /\ C7_Example]_vars

\* after pushes P1,P2,P3 the second undo has returned P1
C7_Witness ==
    /\ hOp.name = "undo"
    /\ hOp.ret = "P1"
    /\ StatesOf(undoStack) = <<"P1">>
    /\ StatesOf(redoStack) = <<"P3", "P2">>

(* C8: right after any push the redo stack is empty: can_redo() is False,  *)
(* redo_count is 0 and redo() returns None.                                *)
C8_PushClearsRedo ==
    hOp.name = "push" =>
        /\ ~can_redo(redoStack)
        /\ redo_count(redoStack) = 0
        /\ RedoResult(undoStack, redoStack).ret = None

\* a push made while two undone entries were waiting on the redo stack
C8_Witness == hOp.name = "push" /\ hOp.redoBefore = 2 /\ redoStack = <<>>

(* C9: for any max_history, once the first push has happened the undo      *)
(* stack holds at least one entry after every later push, undo or redo     *)
(* (up to the next clear()).                                               *)
C9_KeepOneEntry ==
    (hasPushed /\ hOp.name \in {"push", "undo", "redo"}) => Len(undoStack) >= 1

(* C10 as stated: the undo stack has at most max_history entries, both     *)
(* stacks together at most max_history, undo_count is at most              *)
(* max_history - 1, and after more than max_history consecutive pushes     *)
(* undo_count equals max_history - 1.                                      *)
C10_Original ==
    /\ Len(undoStack) <= maxHistory
    /\ Len(undoStack) + Len(redoStack) <= maxHistory
    /\ undo_count(undoStack) <= maxHistory - 1
    /\ pushRun > maxHistory => undo_count(undoStack) = maxHistory - 1

(* C10 amended: for max_history >= 0 the undo stack has at most            *)
(* max_history entries, both stacks together at most max_history,          *)
(* undo_count is at most max(0, max_history - 1), and after more than      *)
(* max_history consecutive pushes undo_count equals                        *)
(* max(0, max_history - 1).                                                *)
C10_RespectsMaxHistory ==
    /\ Len(undoStack) <= maxHistory
    /\ Len(undoStack) + Len(redoStack) <= maxHistory
    /\ undo_count(undoStack) <= Max(0, maxHistory - 1)
    /\ pushRun > maxHistory => undo_count(undoStack) = Max(0, maxHistory - 1)

\* max_history = 3 and 5 pushes in a row: undo_count is 2
C10_Witness == maxHistory = 3 /\ pushRun = 5 /\ undo_count(undoStack) = 2

Attempts(events) == {i \in 1..Len(events) : events[i].kind = "attempt"}

(* C6: with config.retries = n >= 0 and every attempt failing with the     *)
(* library's download error, download(url) and download_playlist(url) make *)
(* exactly n+1 attempts and then raise the typed DownloadError, whose      *)
(* message reports n+1 attempts and which wraps the last underlying        *)
(* failure; the library's error type never escapes.                        *)
C6_AllFailed ==
    \A i \in Attempts(dEvents) : dEvents[i].outcome \in LibErrors

C6_RetryExhaustion ==
    /\ (dRetries >= 0 /\ C6_AllFailed) =>
           /\ Cardinality(Attempts(dEvents)) <= dRetries + 1
           /\ dPc \notin {"returned"}
           /\ dPc = "raised" =>
                  /\ Cardinality(Attempts(dEvents)) = dRetries + 1
                  /\ dResult = DownloadError(dRetries + 1, Last(dEvents).outcome,
                                             Last(dEvents).outcome)
           /\ Cardinality(Attempts(dEvents)) = dRetries + 1 => dPc = "raised"
    /\ dPc = "raised" => dResult.type \in {"DownloadError", "OtherError"}

\* retries = 2: the third failure in a row has raised DownloadError("... after 3 attempts: e2")
C6_Witness ==
    /\ dRetries = 2
    /\ dPc = "raised"
    /\ dCall.method = "download_playlist"
    /\ C6_AllFailed
    /\ dResult = DownloadError(3, "e2", "e2")
    /\ dEvents[1].outcome = "e1"


\* What a DownloadArchive constructed now on the file answers to contains().
FreshContains(p) == EntryLine(p[1], p[2]) \in LoadEntries(aFile)

C11_GetNextAtomic ==
    gPc = "done" =>
        /\ (IF gRet = NoHandOut THEN NoId ELSE gRet.id) \in gCould
        /\ gRet # NoHandOut => gRet.status = PENDING

\* The item entries a snapshot lists for the items in memory
Listed(items, keys) == [i \in 1..Len(keys) |-> to_dict(items[keys[i]])]

\* C12: with a queue_file, after every mutating call returns the snapshot on
\* disk lists exactly the items in memory, with their current status,
\* progress, error and retries.
C12_EveryMutatingCallPersists ==
    [][MutatingCall /\ qHasFile => qFile'.items = Listed(qItems', qKeys')]_vars

\* The ids of the item entries of a snapshot whose status is "pending", in order
RECURSIVE PendingIds(_)
PendingIds(entries) ==
    IF entries = <<>> THEN <<>>
    ELSE (IF entries[1].status = "pending" THEN <<entries[1].id>> ELSE <<>>)
             \o PendingIds(Tail(entries))

\* C13: a queue constructed on a snapshot written by a queue holds the items
\* of the snapshot, field by field, and its FIFO holds the ids of the PENDING
\* ones in file order.
C13_LoadRoundTrip ==
    qRet.call = "__init__" =>
        /\ qCtorError = None
        /\ Len(qKeys) = Len(qFile.items)
        /\ DOMAIN qItems = {qKeys[i] : i \in 1..Len(qKeys)}
        /\ \A i \in 1..Len(qKeys) :
              LET d == qFile.items[i]
                  item == qItems[qKeys[i]]
              IN  /\ qKeys[i] = d.id
                  /\ item.id = d.id
                  /\ item.url = d.url
                  /\ item.title = d.title
                  /\ StatusValue[item.status] = d.status
                  /\ item.progress = d.progress
                  /\ item.error = d.error
                  /\ item.retries = d.retries
        /\ qFifo = PendingIds(qFile.items)

\* A queue loaded from a snapshot of two items, a retried PENDING one and one
\* that is not PENDING
C13_Witness ==
    /\ qRet.call = "__init__"
    /\ Len(qKeys) = 2
    /\ Len(qFifo) = 1
    /\ \E id \in DOMAIN qItems : qItems[id].retries = 1 /\ qItems[id].status = PENDING

\* The snapshot is text that is not JSON, or one of its item entries lacks
\* the url key or has an unrecognised status
Malformed(file) ==
    \/ ~file.json
    \/ \E i \in 1..Len(file.items) :
          \/ file.items[i].url = Missing
          \/ file.items[i].status \notin {StatusValue[st] : st \in Statuses}

\* C14: constructing a DownloadQueue on a malformed snapshot raises nothing
\* and yields an empty queue: len(queue) is 0 and get_next() returns None.
C14_MalformedIsEmpty ==
    qRet.call = "__init__" /\ Malformed(qFile) =>
        /\ qCtorError = None
        /\ Cardinality(DOMAIN qItems) = 0
        /\ GetNextResult(qFifo, qItems, qPaused).ret = NoId

\* C15: pause(id) and resume(id) with an id argument touch only that item:
\* the queue-wide pause flag and every other item stay as they are, whether
\* or not the id names an item of the queue.
C15_IdCallsLeaveFlag ==
    [][\A id \in ItemIds :
          qRet'.call = "none" /\ (QPause(id) \/ QResume(id)) =>
              /\ qPaused' = qPaused
              /\ DOMAIN qItems' = DOMAIN qItems
              /\ \A other \in DOMAIN qItems \ {id} : qItems'[other] = qItems[other]]_vars

\* C16: while the queue-wide pause flag is set, get_next() returns None and
\* takes nothing off the FIFO; pause() and resume() without an id leave the
\* items and the FIFO alone, so the get_next() calls after resume() return
\* the pending items a queue that was never paused would return, in order.
C16_PauseBlocksWithoutPopping ==
    [][/\ qRet'.call = "get_next" /\ QGetNext /\ qPaused =>
              /\ qRet'.id = NoId
              /\ qFifo' = qFifo
              /\ qItems' = qItems
       /\ qRet'.call = "none" /\ (QPause(NoId) \/ QResume(NoId)) =>
              /\ qFifo' = qFifo
              /\ qItems' = qItems
              /\ DrainReturns(qFifo', qItems') = DrainReturns(qFifo, qItems)
       /\ qRet'.call = "none" /\ QResume(NoId) => ~qPaused']_vars

\* get_next() returned None on a paused queue whose FIFO holds a PENDING item
C16_Witness ==
    /\ qPaused
    /\ qRet.call = "get_next"
    /\ qRet.id = NoId
    /\ DrainReturns(qFifo, qItems) # <<>>

\* C17: every add creates an item distinct from all existing ones: the queue
\* grows by one per add(url) and by len(urls) per add_batch(urls), and no item
\* already in the queue is replaced, also when the same url is added twice
\* within one clock millisecond.
C17_AddCreatesDistinctItem ==
    [][/\ \A url \in QUrls, title \in QTitles, now \in Clocks :
              qRet'.call = "add" /\ QAdd(url, title, now) =>
                  /\ Cardinality(DOMAIN qItems') = Cardinality(DOMAIN qItems) + 1
                  /\ \A id \in DOMAIN qItems : qItems'[id] = qItems[id]
       /\ \A u1 \in QUrls, u2 \in QUrls, now1 \in Clocks, now2 \in Clocks :
              qRet'.call = "add_batch" /\ QAddBatch(u1, now1, u2, now2) =>
                  /\ Cardinality(DOMAIN qItems') = Cardinality(DOMAIN qItems) + 2
                  /\ \A id \in DOMAIN qItems : qItems'[id] = qItems[id]]_vars

\* How many lines of the file are exactly the given entry line
Occurrences(file, line) ==
    LET lines == SplitLines(file.text)
    IN  Cardinality({i \in 1..Len(lines) : lines[i] = line})

Sleeps(events) == {i \in 1..Len(events) : events[i].kind = "sleep"}

\* C19: the retry loop stops at the first successful attempt and returns its
\* info: when attempt k is the first success there were exactly k attempts and
\* k-1 sleeps of retry_sleep; every sleep lies between a failed attempt and
\* the next attempt, none follows the final attempt, and there are never more
\* than retries+1 attempts.
C19_StopsAtFirstSuccess ==
    /\ Cardinality(Attempts(dEvents)) <= Max(dRetries + 1, 0)
    /\ \A i \in Sleeps(dEvents) :
           /\ dEvents[i].secs = RetrySleep
           /\ i > 1 /\ dEvents[i - 1].kind = "attempt" /\ dEvents[i - 1].outcome \in LibErrors
           /\ IF i < Len(dEvents) THEN dEvents[i + 1].kind = "attempt" ELSE dPc = "attempt"
    /\ \A i \in Attempts(dEvents) :
           dEvents[i].outcome = "ok" =>
               /\ i = Len(dEvents)
               /\ dPc = "returned"
               /\ dResult = [type |-> "info", url |-> dCall.url]
               /\ Cardinality(Sleeps(dEvents)) = Cardinality(Attempts(dEvents)) - 1
               /\ \A j \in Attempts(dEvents) \ {i} : dEvents[j].outcome \in LibErrors
    /\ dPc = "returned" => dEvents # <<>> /\ Last(dEvents).outcome = "ok"
    /\ dPc \in {"returned", "raised"} /\ dEvents # <<>> => Last(dEvents).kind = "attempt"

\* retries = 2: the third attempt, the last one allowed, is the first success,
\* after two failures and two sleeps
C19_Witness ==
    /\ dRetries = 2
    /\ dPc = "returned"
    /\ Cardinality(Attempts(dEvents)) = 3
    /\ Cardinality(Sleeps(dEvents)) = 2
    /\ dEvents[1].outcome = "e1"

\* C20: the progress callback runs while the caller of update_progress holds
\* the lock, once per update_progress call on an id of the queue and never for
\* an unknown id; a callback that makes a lock-taking call of its own waits
\* for the lock its own thread holds and never gets on.
C20_CallbackUnderLock ==
    [][\A t \in Threads :
          /\ tPc'[t] \in {"callback", "nested"} => qLock' = t
          /\ tCallbacks'[t] <= 1
          /\ tPc[t] = "waiting" /\ tPc'[t] # "waiting" =>
                 /\ tPc'[t] = "callback" <=>
                        /\ tCall[t].op = "update_progress"
                        /\ tCall[t].id \in DOMAIN qItems
                        /\ qOnProgress
                 /\ tCallbacks'[t] = IF tPc'[t] = "callback" THEN 1 ELSE 0
          /\ tPc[t] = "nested" => tPc'[t] = "nested" /\ qLock' = t]_vars

\* the callback of an update_progress call has made a call of its own and
\* waits, while the other thread waits for the lock as well
C20_Witness ==
    /\ tPc["worker"] = "nested"
    /\ tCall["worker"].op = "cancel"
    /\ tPc["ui"] = "waiting"
    /\ qLock = "worker"
    /\ qItems[KnownId].progress = 100

\* C21: two DownloadArchive instances on one file are not synchronized and
\* remove is last-writer-wins: an add by B leaves A's cached set as it was,
\* and a remove by A that finds its entry rewrites the whole file from A's
\* cached set, so the file then holds exactly A's set without the removed
\* entry, whatever B has appended since A loaded.
C21_RemoveRewritesFromCache ==
    [][/\ aOp'.name = "add" /\ aOp'.inst = "B" => aEntries'["A"] = aEntries["A"]
       /\ aOp'.name = "remove" /\ aOp'.ret =>
              LoadEntries(aFile') =
                  Loaded(aOp'.inst) \ {EntryLine(aOp'.pair[1], aOp'.pair[2])}]_vars

\* A has removed an entry it had cached; another entry, whose last call was
\* an add (by B, after A loaded), is no longer in the file.
C21_Witness ==
    /\ aOp.name = "remove" /\ aOp.inst = "A" /\ aOp.ret
    /\ \E e \in Pairs :
          /\ e # aOp.pair
          /\ aLastOn[e] = "add"
          /\ ~FreshContains(e)
          /\ EntryLine(e[1], e[2]) \in Loaded("B")

\* C22: can_undo, can_redo, get_undo_description and get_redo_description
\* leave both stacks as they are and agree with the actions: can_undo() is
\* True exactly when undo() would move an entry (more than one entry on the
\* undo stack), can_redo() exactly when redo() would move one,
\* get_undo_description() is the description of the entry undo() would move
\* (None when it would move none), and right after an undo
\* get_redo_description() is what get_undo_description() was just before it.
C22_Moves(after) == after.undo # undoStack

C22_AskedStep ==
    /\ hOp'.name \in {"can_undo", "can_redo", "get_undo_description", "get_redo_description"} =>
           undoStack' = undoStack /\ redoStack' = redoStack
    /\ hOp'.name = "can_undo" =>
           /\ hOp'.flag <=> C22_Moves(UndoResult(undoStack, redoStack))
           /\ hOp'.flag <=> Len(undoStack) > 1
    /\ hOp'.name = "can_redo" =>
           hOp'.flag <=> C22_Moves(RedoResult(undoStack, redoStack))
    /\ hOp'.name = "get_undo_description" =>
           LET after == UndoResult(undoStack, redoStack)
           IN  hOp'.ret = IF C22_Moves(after) THEN Last(after.redo).description ELSE None
    /\ hOp'.name = "get_redo_description" =>
           LET after == RedoResult(undoStack, redoStack)
           IN  hOp'.ret = IF C22_Moves(after) THEN Last(after.undo).description ELSE None
    /\ hOp'.name = "undo" /\ can_undo(undoStack) =>
           get_redo_description(redoStack') = get_undo_description(undoStack)

C22_QueriesAgree == [][C22_AskedStep]_vars

\* get_undo_description has answered "edit" for the top of a two-entry
\* stack while an undone entry with another description waits on the redo stack
C22_Witness ==
    /\ hOp.name = "get_undo_description"
    /\ hOp.ret = "edit"
    /\ Len(undoStack) = 2
    /\ get_redo_description(redoStack) = ""

\* C23: save(path) and load(path) with a path whose extension, compared
\* case-insensitively, is not .json, .yaml or .yml raise ValueError at once:
\* no directory or file is created, written or read, and the manager's
\* current project stays as it was.
C23_UnsupportedRaises ==
    [][\A path \in PathNames :
          /\ pmOp'.name \in {"save", "load"}
          /\ pmOp'.path = path
          /\ Lower(Suffix(path)) \notin {<<".", "j", "s", "o", "n">>,
                  <<".", "y", "a", "m", "l">>, <<".", "y", "m", "l">>}
          => /\ pmOp'.raised = "ValueError"
             /\ pmIo' = {}
             /\ pmDir' = pmDir /\ pmFiles' = pmFiles
             /\ pmProject' = pmProject]_vars

\* load("p.txt") has raised ValueError although p.txt exists and holds
\* another project than the current one, which a save has written to p.JSON
C23_Witness ==
    /\ pmOp.name = "load"
    /\ pmOp.path = <<"p", ".", "t", "x", "t">>
    /\ pmOp.raised = "ValueError"
    /\ pmFiles[pmOp.path].exists /\ pmFiles[pmOp.path].project # pmProject
    /\ pmFiles[<<"p", ".", "J", "S", "O", "N">>].exists

\* The first id of the FIFO that names a PENDING item (0 when there is none)
FirstPending(fifo, items) ==
    LET live == {i \in 1..Len(fifo) :
                    fifo[i] \in DOMAIN items /\ items[fifo[i]].status = PENDING}
    IN  IF live = {} THEN 0 ELSE CHOOSE i \in live : \A j \in live : i <= j

\* C24: FIFO order: on a queue that is not paused get_next() returns the
\* PENDING item whose id was enqueued first, removing it and the ids before
\* it, which name no PENDING item; it returns None only when no id of the
\* FIFO names a PENDING item, and the FIFO is then empty.
C24_FifoOrder ==
    [][qRet'.call = "get_next" /\ ~qPaused =>
          LET first == FirstPending(qFifo, qItems)
          IN  IF first = 0
              THEN qRet'.id = NoId /\ qFifo' = <<>>
              ELSE /\ qRet'.id = qFifo[first]
                   /\ qFifo' = SubSeq(qFifo, first + 1, Len(qFifo))]_vars

Reversed(seq) == [i \in 1..Len(seq) |-> seq[Len(seq) + 1 - i]]

\* C25: undo and redo are inverse: where can_undo() holds, undo() then
\* redo() restores both stacks and redo() returns the state that was on top
\* before the undo; where can_redo() holds, redo() then undo() restores both
\* stacks; and no undo or redo step creates, drops or reorders an entry: the
\* undo stack followed by the reversed redo stack stays the same sequence.
C25_Inverse ==
    /\ can_undo(undoStack) =>
           LET u == UndoResult(undoStack, redoStack)
               r == RedoResult(u.undo, u.redo)
           IN  /\ r.undo = undoStack /\ r.redo = redoStack
               /\ r.ret = Last(undoStack).state
    /\ can_redo(redoStack) =>
           LET r == RedoResult(undoStack, redoStack)
               u == UndoResult(r.undo, r.redo)
           IN  u.undo = undoStack /\ u.redo = redoStack

C25_UndoRedoInverse ==
    [][/\ C25_Inverse
       /\ hOp'.name \in {"undo", "redo"} =>
              undoStack' \o Reversed(redoStack') = undoStack \o Reversed(redoStack)]_vars

\* a redo has returned P2 with both an undo and a further redo possible:
\* two entries on the undo stack, one still on the redo stack
C25_Witness ==
    /\ hOp.name = "redo" /\ hOp.ret = "P2"
    /\ can_undo(undoStack) /\ can_redo(redoStack)
    /\ Len(undoStack) = 2 /\ Len(redoStack) = 1

\* What repeated undo() calls return, in order, up to the first None
RECURSIVE UndoReturns(_, _)
UndoReturns(undo, redo) ==
    LET r == UndoResult(undo, redo)
    IN  IF r.ret = None THEN <<>> ELSE <<r.ret>> \o UndoReturns(r.undo, r.redo)

\* A push evicts the oldest entry only, and none while the cap is not exceeded
C26_PushStep ==
    hOp'.name = "push" /\ maxHistory >= 1 =>
        /\ Last(undoStack').state = Last(pushedRun')
        /\ Front(undoStack') =
               IF Len(undoStack) + 1 > maxHistory THEN Tail(undoStack) ELSE undoStack

\* C26 as stated: after k > max_history >= 1 consecutive pushes the undo
\* stack holds the last max_history pushed states in push order, and repeated
\* undo() returns them newest-first down to the (k - max_history + 1)-th
\* pushed state, then None.
C26_Original ==
    [][/\ C26_PushStep
       /\ (pushRun' > maxHistory /\ maxHistory >= 1) =>
              /\ StatesOf(undoStack') = LastOf(pushedRun', maxHistory)
              /\ UndoReturns(undoStack', redoStack') =
                     Reversed(LastOf(pushedRun', maxHistory))]_vars

\* C26 amended: after k > max_history >= 1 consecutive pushes the undo stack
\* holds exactly the last max_history pushed states in push order; repeated
\* undo() returns the states below the newest one, from the (k - 1)-th down
\* to the (k - max_history + 1)-th pushed state (none when max_history = 1),
\* and then None; a push evicts the oldest entry only, and none while the
\* cap is not exceeded.
C26_EvictsOldestOnly ==
    [][/\ C26_PushStep
       /\ (pushRun' > maxHistory /\ maxHistory >= 1) =>
              /\ StatesOf(undoStack') = LastOf(pushedRun', maxHistory)
              /\ UndoReturns(undoStack', redoStack') =
                     Reversed(Front(LastOf(pushedRun', maxHistory)))]_vars

\* max_history = 3 and five pushes in a row, the last three P2, P3, P1:
\* the stack holds P2, P3, P1 and undo would return P3, then P2, then None
C26_Witness ==
    /\ hOp.name = "push" /\ maxHistory = 3 /\ pushRun = 5
    /\ StatesOf(undoStack) = <<"P2", "P3", "P1">>
    /\ UndoReturns(undoStack, redoStack) = <<"P3", "P2">>

\* C27: update_status(id, COMPLETED) sets status COMPLETED and progress 100;
\* update_status(id, FAILED, error) sets status FAILED and a non-empty error,
\* "Unknown error" when none is given; every other status is assigned with
\* error, progress and retries untouched; no other item changes.  So an item
\* with status FAILED has a non-null error in every state reached from an
\* empty queue.
C27_Routed(id, status, error) ==
    LET after == RouteStatus(qItems, id, status, error)
    IN  /\ after[id].status = status
        /\ after[id].retries = qItems[id].retries
        /\ after[id].progress = IF status = COMPLETED THEN 100 ELSE qItems[id].progress
        /\ status = FAILED =>
               /\ after[id].error \notin {None, ""}
               /\ error = None => after[id].error = "Unknown error"
               /\ error = "boom" => after[id].error = "boom"
        /\ status # FAILED => after[id].error = qItems[id].error
        /\ \A other \in DOMAIN qItems \ {id} : after[other] = qItems[other]
        /\ DOMAIN after = DOMAIN qItems

C27_FailedHasError ==
    /\ \A id \in DOMAIN qItems, status \in Statuses, error \in ErrorTexts :
           C27_Routed(id, status, error)
    /\ \A id \in DOMAIN qItems : qItems[id].status = FAILED => qItems[id].error # None

\* an item that was retried has failed again, with no error text given
C27_Witness ==
    /\ qRet.call = "none"
    /\ \E id \in DOMAIN qItems :
          /\ qItems[id].status = FAILED
          /\ qItems[id].error = "Unknown error"
          /\ qItems[id].retries = 1

\* The step is a pause, resume, retry, cancel or get_next call
C28_OwnCall ==
    \/ qRet'.call \in {"cancel", "retry", "get_next"}
    \/ /\ qRet'.call = "none"
       /\ \E a \in ArgIds \cup {NoId} : QPause(a) \/ QResume(a)

\* C28: cancellation is final for the queue's own calls: a cancelled item
\* stays in the map with status CANCELLED through every pause, resume,
\* retry, cancel and get_next call, with or without an id, and get_next
\* does not return it.
C28_CancelIsFinal ==
    [][\A id \in DOMAIN qItems :
          qItems[id].status = CANCELLED /\ C28_OwnCall =>
              /\ id \in DOMAIN qItems'
              /\ qItems'[id].status = CANCELLED
              /\ qRet'.id # id]_vars

\* C29: the FIFO never holds the same id twice, after any add, pause(id),
\* resume(id), cancel, update_status, retry and get_next calls; hence two
\* get_next() calls in a row never return the same item.
C29_NoDuplicateIds ==
    /\ \A i \in 1..Len(qFifo), j \in 1..Len(qFifo) : qFifo[i] = qFifo[j] => i = j
    /\ LET first == GetNextResult(qFifo, qItems, qPaused)
           second == GetNextResult(first.fifo, qItems, qPaused)
       IN  first.ret # NoId => second.ret # first.ret

\* C30: no pending item is lost: a call that makes an item PENDING (a new
\* item, or one that had another status) leaves its id in the FIFO, and the
\* id of an item that stays PENDING leaves the FIFO only by get_next
\* returning that item; so a PENDING item not handed out since it became
\* PENDING is in the FIFO.
C30_NoPendingLost ==
    [][\A id \in DOMAIN qItems' :
          qItems'[id].status = PENDING =>
              /\ (id \notin DOMAIN qItems \/ qItems[id].status # PENDING) =>
                     InSeq(id, qFifo')
              /\ (id \in DOMAIN qItems /\ qItems[id].status = PENDING
                      /\ InSeq(id, qFifo) /\ ~InSeq(id, qFifo')) =>
                     qRet'.call = "get_next" /\ qRet'.id = id]_vars
====
